---- MODULE Spec2Model ----
(***************************************************************************)
(* A model of soulstruct's MSB utilities (base/maps/msb/utils.py): the     *)
(* GroupBitSet flag sets, the MSB merge and the transforms of Parts and    *)
(* Regions; of RuntimeManager.hook_into_game (project/runtime.py), of      *)
(* DrawParam.get_nonzero_entries and of the event tests FlagEnabled,       *)
(* FlagDisabled, InsideMap and OutsideMap (events/shared/tests.py).        *)
(*                                                                         *)
(* Python objects live in a small heap: an object slot holds a class and   *)
(* a reference to a set cell, so that two objects (or an object and a set  *)
(* held by the caller) that share one `set` are visibly the same cell.     *)
(* An unsigned 32-bit word is the set of the positions of its one-bits     *)
(* (2^31 does not fit TLC's 32-bit integers): testing `(2 ** j) & word`   *)
(* is `j \in word`, and `word += 2 ** j` on a clear bit is adding j.       *)
(* A string is a sequence of symbols, a class name being one symbol.       *)
(***************************************************************************)
EXTENDS Integers, Sequences, FiniteSets, TLC

(* ---------------------------------------------------------------- bounds *)
MaxSetSize == 2
MaxStrLen == 5
MaxEntries == 2
MaxSel == 2
MaxCalls == 2
MaxUpdates == 2
MaxRows == 2
MaxSkip == 2

(* ------------------------------------------------------ program constants *)
BIT_COUNT_128 == 128
BIT_COUNT_256 == 256
WORD_BITS == 32

Classes == {"GroupBitSet128", "GroupBitSet256"}

BIT_COUNT(cls) == IF cls = "GroupBitSet128" THEN BIT_COUNT_128 ELSE BIT_COUNT_256

(* ----------------------------------------------------------------- inputs *)
ObjIds == {1, 2}
CellIds == {1, 2, 3}

\* The bit indices a caller tries: one below the range, the last of the class's
\* range and the class's BIT_COUNT, for one class or the other.
SampleBits(cls) == {-1, BIT_COUNT(cls) - 1, BIT_COUNT(cls)}

SmallSets(U) == {S \in SUBSET U : Cardinality(S) <= MaxSetSize}

\* The list of n uint32 words whose one-bits are the bits of S below 32 * n.
WordsOf(n, S) == [i \in 1..n |-> {j \in 0..(WORD_BITS - 1) : (i - 1) * WORD_BITS + j \in S}]

WordCount(cls) == BIT_COUNT(cls) \div WORD_BITS

\* Word lists tried by callers: all-zero lists with no word, with each class's
\* word count and with one word less or more than `cls` has, and for each
\* sampled bit the shortest list that holds it.
SampleLists(cls, U) ==
  {WordsOf(n, {}) : n \in {0, WordCount(cls) - 1, WordCount(cls) + 1} \cup {WordCount(c) : c \in Classes}}
  \cup {WordsOf((b \div WORD_BITS) + 1, {b}) : b \in {u \in U : u >= 0}}

\* What one run explores: the bit indices it tries (those of one class), and
\* either two instances (sets passed to them are temporaries) or one instance
\* and a set the caller keeps.
Scenarios ==
  {[cls |-> "GroupBitSet128", bits |-> SampleBits("GroupBitSet128"), slots |-> ObjIds, caller |-> FALSE]}
  \cup {[cls |-> c, bits |-> SampleBits(c), slots |-> {1}, caller |-> TRUE] : c \in Classes}

VARIABLES scenario, objs, cells, callerSet, last, rt, tx, ents, msb_1, msb_2, merged, mlast,
          world, wlast, manager, hk, draw_param, dlast, elast

bitVars == <<scenario, objs, cells, callerSet, last>>
mergeVars == <<ents, msb_1, msb_2, merged, mlast>>
worldVars == <<world, wlast>>
hookVars == <<manager, hk>>
drawVars == <<draw_param, dlast>>
nonBitVars == <<rt, tx, mergeVars, worldVars, hookVars, drawVars, elast>>
nonRtVars == <<bitVars, tx, mergeVars, worldVars, hookVars, drawVars, elast>>
nonTxVars == <<bitVars, rt, mergeVars, worldVars, hookVars, drawVars, elast>>
nonMergeVars == <<bitVars, rt, tx, worldVars, hookVars, drawVars, elast>>
nonWorldVars == <<bitVars, rt, tx, mergeVars, hookVars, drawVars, elast>>
nonHookVars == <<bitVars, rt, tx, mergeVars, worldVars, drawVars, elast>>
nonDrawVars == <<bitVars, rt, tx, mergeVars, worldVars, hookVars, elast>>
nonTestVars == <<bitVars, rt, tx, mergeVars, worldVars, hookVars, drawVars>>
vars == <<scenario, objs, cells, callerSet, last, rt, tx, ents, msb_1, msb_2, merged, mlast,
          world, wlast, manager, hk, draw_param, dlast, elast>>

(* ------------------------------------------- soulstruct.utilities.conversion *)
\* The set of global bit indices 32*i + j of the one-bits of the words, or a
\* ValueError when the list does not have `assert_size` words.
int_group_to_bit_set(int_group, assert_size) ==
  IF Len(int_group) # assert_size
    THEN [outcome |-> "ValueError", bits |-> {}]
    ELSE [outcome |-> "ok",
          bits |-> UNION {{(i - 1) * WORD_BITS + j : j \in int_group[i]} : i \in 1..assert_size}]

\* `group_size` words, bit (i mod 32) of word (i div 32) set for each enabled i.
bit_set_to_int_group(enabled_flags, group_size) ==
  [w \in 1..group_size |->
     {i % WORD_BITS : i \in {f \in enabled_flags : f \div WORD_BITS = w - 1}}]

(* ------------------------------------------------------------ GroupBitSet *)
\* A constructor argument: an instance (its class and cell), a list of words,
\* a set (its cell, 0 for a temporary, and its members) or anything else.
ArgInstance(o) == [kind |-> "instance", cls |-> o.cls, cell |-> o.cell, bits |-> {}, words |-> <<>>]
ArgList(ws) == [kind |-> "list", cls |-> "none", cell |-> 0, bits |-> {}, words |-> ws]
ArgSet(c, S) == [kind |-> "set", cls |-> "none", cell |-> c, bits |-> S, words |-> <<>>]
ArgOther == [kind |-> "other", cls |-> "none", cell |-> 0, bits |-> {}, words |-> <<>>]

\* GroupBitSet.__init__: the outcome, and the set the new instance's enabled_bits
\* refers to: an existing cell (alias # 0) or a new set holding `bits`.
GroupBitSet_init(cls, arg) ==
  IF arg.kind = "instance" /\ arg.cls = cls
    THEN [outcome |-> "ok", alias |-> arg.cell, bits |-> {}]
  ELSE IF arg.kind = "list"
    THEN LET r == int_group_to_bit_set(arg.words, Len(arg.words))
         IN [outcome |-> r.outcome, alias |-> 0, bits |-> r.bits]
  ELSE IF arg.kind = "set"
    THEN IF \A i \in arg.bits : i < BIT_COUNT(cls)
           THEN [outcome |-> "ok", alias |-> arg.cell, bits |-> arg.bits]
           ELSE [outcome |-> "TypeError", alias |-> 0, bits |-> {}]
  ELSE [outcome |-> "TypeError", alias |-> 0, bits |-> {}]

\* to_sorted_bit_list: sorted(self.enabled_bits), ascending.
RECURSIVE to_sorted_bit_list(_)
to_sorted_bit_list(enabled_bits) ==
  IF enabled_bits = {} THEN <<>>
  ELSE LET m == CHOOSE i \in enabled_bits : \A k \in enabled_bits : i <= k
       IN <<m>> \o to_sorted_bit_list(enabled_bits \ {m})

\* to_uints with the words counted as bytes.
to_uints_bytes(cls, enabled_bits) ==
  bit_set_to_int_group(enabled_bits, BIT_COUNT(cls) \div 8)

\* to_uints: BIT_COUNT // 32 words.
to_uints(cls, enabled_bits) ==
  bit_set_to_int_group(enabled_bits, BIT_COUNT(cls) \div WORD_BITS)

\* add: the range check, then set.add.
GroupBitSet_add(cls, enabled_bits, bit) ==
  IF ~(0 <= bit /\ bit <= BIT_COUNT(cls))
    THEN [outcome |-> "ValueError", bits |-> enabled_bits]
    ELSE [outcome |-> "ok", bits |-> enabled_bits \cup {bit}]

\* remove: the range check, then set.remove (KeyError on a missing element).
GroupBitSet_remove(cls, enabled_bits, bit) ==
  IF ~(0 <= bit /\ bit <= BIT_COUNT(cls))
    THEN [outcome |-> "ValueError", bits |-> enabled_bits]
  ELSE IF bit \notin enabled_bits
    THEN [outcome |-> "KeyError", bits |-> enabled_bits]
    ELSE [outcome |-> "ok", bits |-> enabled_bits \ {bit}]

\* __or__ taking an instance of any GroupBitSet class for one of its own.
GroupBitSet_or_any_instance(cls, enabled_bits, other) ==
  IF other.kind \in {"instance", "set"}
    THEN GroupBitSet_init(cls, ArgSet(0, enabled_bits \cup other.bits))
    ELSE [outcome |-> "TypeError", alias |-> 0, bits |-> {}]

\* __or__: the union is a new set, handed to the constructor of self's class.
GroupBitSet_or(cls, enabled_bits, other) ==
  IF other.kind = "instance" /\ other.cls = cls
    THEN GroupBitSet_init(cls, ArgSet(0, enabled_bits \cup other.bits))
  ELSE IF other.kind = "set"
    THEN GroupBitSet_init(cls, ArgSet(0, enabled_bits \cup other.bits))
  ELSE [outcome |-> "TypeError", alias |-> 0, bits |-> {}]

(* ------------------------------------------------------------------- heap *)
NoObj == [cls |-> "none", cell |-> 0]
Live(o) == objs[o].cls # "none"
Bits(o) == cells[objs[o].cell]

Refs(os, cs) == ({os[o].cell : o \in ObjIds} \cup {cs}) \ {0}

\* The lowest cell no reference of `os`, `cs` holds.
FreshCell(os, cs) ==
  CHOOSE c \in CellIds : c \notin Refs(os, cs) /\ \A d \in CellIds \ Refs(os, cs) : c <= d

\* Unreferenced sets are garbage: their cells are cleared for reuse.
Collect(os, cs, cl) == [c \in CellIds |-> IF c \in Refs(os, cs) THEN cl[c] ELSE {}]

\* The record of the last call: the operation, how it ended, the receiver slot x,
\* the slot y of an instance argument, the slot z the result is bound to, the bit
\* (or the length of a list argument), self's class, and the argument's kind and,
\* for a set, its members.
Op(op, outcome, x, y, z, bit, cls, arg) ==
  [op |-> op, outcome |-> outcome, x |-> x, y |-> y, z |-> z, bit |-> bit, cls |-> cls,
   kind |-> arg.kind, set |-> IF arg.kind = "set" THEN arg.bits ELSE {}]

NoArg == [kind |-> "none", cls |-> "none", cell |-> 0, bits |-> {}, words |-> <<>>]

\* Slot z is bound to the instance a constructor call returned; a call that
\* raised binds nothing.
Bind(z, cls, r) ==
  IF r.outcome # "ok"
    THEN UNCHANGED <<objs, cells>>
  ELSE IF r.alias # 0
    THEN /\ objs' = [objs EXCEPT ![z] = [cls |-> cls, cell |-> r.alias]]
         /\ cells' = Collect(objs', callerSet, cells)
  ELSE LET c == FreshCell([objs EXCEPT ![z] = NoObj], callerSet)
       IN /\ objs' = [objs EXCEPT ![z] = [cls |-> cls, cell |-> c]]
          /\ cells' = Collect(objs', callerSet, [cells EXCEPT ![c] = r.bits])

BitsInit ==
  /\ scenario \in Scenarios
  /\ objs = [o \in ObjIds |-> NoObj]
  /\ cells = [c \in CellIds |-> {}]
  /\ callerSet = 0
  /\ last = Op("none", "ok", 0, 0, 0, 0, "none", NoArg)

\* The caller builds a set of its own and keeps it.
CallerNewSet(S) ==
  LET c == FreshCell(objs, 0)
  IN /\ scenario.caller
     /\ callerSet' = c
     /\ cells' = Collect(objs, c, [cells EXCEPT ![c] = S])
     /\ UNCHANGED <<objs, scenario, nonBitVars>>
     /\ last' = Op("set", "ok", 0, 0, 0, 0, "none", NoArg)

\* z = cls(arg)
New(z, cls, arg) ==
  LET r == GroupBitSet_init(cls, arg)
  IN /\ Bind(z, cls, r)
     /\ UNCHANGED <<callerSet, scenario, nonBitVars>>
     /\ last' = Op("new", r.outcome, 0, 0, z, Len(arg.words), cls, arg)

NewFromInstance(z, cls, y) == Live(y) /\ New(z, cls, ArgInstance(objs[y]))
NewFromList(z, cls, ws) == New(z, cls, ArgList(ws))
NewFromSet(z, cls, S) ==
  IF scenario.caller
    THEN callerSet # 0 /\ S = cells[callerSet] /\ New(z, cls, ArgSet(callerSet, S))
    ELSE New(z, cls, ArgSet(0, S))
NewFromOther(z, cls) == New(z, cls, ArgOther)

\* objs[x].add(bit)
Add(x, bit) ==
  /\ Live(x)
  /\ Cardinality(Bits(x) \cup {bit}) <= MaxSetSize
  /\ LET r == GroupBitSet_add(objs[x].cls, Bits(x), bit)
     IN /\ cells' = [cells EXCEPT ![objs[x].cell] = r.bits]
        /\ last' = Op("add", r.outcome, x, 0, 0, bit, objs[x].cls, NoArg)
  /\ UNCHANGED <<objs, callerSet, scenario, nonBitVars>>

\* objs[x].remove(bit)
Remove(x, bit) ==
  /\ Live(x)
  /\ LET r == GroupBitSet_remove(objs[x].cls, Bits(x), bit)
     IN /\ cells' = [cells EXCEPT ![objs[x].cell] = r.bits]
        /\ last' = Op("remove", r.outcome, x, 0, 0, bit, objs[x].cls, NoArg)
  /\ UNCHANGED <<objs, callerSet, scenario, nonBitVars>>

\* z = objs[x] | other
Or(x, other, y, z) ==
  /\ Live(x)
  /\ Cardinality(Bits(x) \cup other.bits) <= MaxSetSize
  /\ LET r == GroupBitSet_or(objs[x].cls, Bits(x), other)
     IN /\ Bind(z, objs[x].cls, r)
        /\ last' = Op("or", r.outcome, x, y, z, 0, objs[x].cls, other)
  /\ UNCHANGED <<callerSet, scenario, nonBitVars>>

OrInstance(x, y, z) ==
  Live(y) /\ Or(x, [ArgInstance(objs[y]) EXCEPT !.bits = Bits(y)], y, z)
OrSet(x, z, S) ==
  IF scenario.caller
    THEN callerSet # 0 /\ S = cells[callerSet] /\ Or(x, ArgSet(callerSet, S), 0, z)
    ELSE Or(x, ArgSet(0, S), 0, z)
OrOther(x, z) == Or(x, ArgOther, 0, z)

BitsNext ==
  \/ \E S \in SmallSets(scenario.bits) : CallerNewSet(S)
  \/ \E z \in scenario.slots, cls \in Classes, y \in scenario.slots : NewFromInstance(z, cls, y)
  \/ \E z \in scenario.slots, cls \in Classes, ws \in SampleLists(scenario.cls, scenario.bits) : NewFromList(z, cls, ws)
  \/ \E z \in scenario.slots, cls \in Classes, S \in SmallSets(scenario.bits) : NewFromSet(z, cls, S)
  \/ \E z \in scenario.slots, cls \in Classes : NewFromOther(z, cls)
  \/ \E x \in scenario.slots, bit \in scenario.bits : Add(x, bit)
  \/ \E x \in scenario.slots, bit \in scenario.bits : Remove(x, bit)
  \/ \E x \in scenario.slots, y \in scenario.slots, z \in scenario.slots : OrInstance(x, y, z)
  \/ \E x \in scenario.slots, z \in scenario.slots, S \in SmallSets(scenario.bits) : OrSet(x, z, S)
  \/ \E x \in scenario.slots, z \in scenario.slots : OrOther(x, z)

BitsIdle ==
  /\ scenario = [cls |-> "none", bits |-> {}, slots |-> {}, caller |-> FALSE]
  /\ objs = [o \in ObjIds |-> NoObj]
  /\ cells = [c \in CellIds |-> {}]
  /\ callerSet = 0
  /\ last = Op("none", "ok", 0, 0, 0, 0, "none", NoArg)

(* ------------------------------------------------- words and back (to_uints) *)
\* Bit indices at both ends of every word of the class.
WordEdgeBits(cls) ==
  {w * WORD_BITS + j : w \in 0..((BIT_COUNT(cls) \div WORD_BITS) - 1), j \in {0, WORD_BITS - 1}}

RtIdle == rt = [stage |-> "idle", cls |-> "none", S |-> {}, bits |-> {}, words |-> <<>>,
                outcome |-> "ok", back |-> <<>>]

RtInit ==
  \E cls \in Classes : \E S \in SmallSets(WordEdgeBits(cls)) :
    rt = [stage |-> "input", cls |-> cls, S |-> S, bits |-> {}, words |-> <<>>,
          outcome |-> "ok", back |-> <<>>]

\* b = cls(S)
RtConstruct ==
  /\ rt.stage = "input"
  /\ LET r == GroupBitSet_init(rt.cls, ArgSet(0, rt.S))
     IN rt' = [rt EXCEPT !.stage = IF r.outcome = "ok" THEN "obj" ELSE "rejected",
                         !.outcome = r.outcome, !.bits = r.bits]
  /\ UNCHANGED nonRtVars

\* words = b.to_uints()
RtToUints ==
  /\ rt.stage = "obj"
  /\ rt' = [rt EXCEPT !.stage = "uints", !.words = to_uints(rt.cls, rt.bits)]
  /\ UNCHANGED nonRtVars

\* cls(words).to_sorted_bit_list()
RtFromUints ==
  /\ rt.stage = "uints"
  /\ LET r == GroupBitSet_init(rt.cls, ArgList(rt.words))
     IN rt' = [rt EXCEPT !.stage = "back", !.outcome = r.outcome,
                         !.back = IF r.outcome = "ok" THEN to_sorted_bit_list(r.bits) ELSE <<>>]
  /\ UNCHANGED nonRtVars

RtNext == RtConstruct \/ RtToUints \/ RtFromUints

(* ------------------------------------------------------ repr and from_repr *)
DigitChars == <<"0", "1", "2", "3", "4", "5", "6", "7", "8", "9">>
IsDigit(ch) == \E d \in 1..10 : DigitChars[d] = ch
DigitVal(ch) == (CHOOSE d \in 1..10 : DigitChars[d] = ch) - 1

\* str(i) for an int.
RECURSIVE NatStr(_)
NatStr(n) == IF n < 10 THEN <<DigitChars[n + 1]>> ELSE NatStr(n \div 10) \o <<DigitChars[(n % 10) + 1]>>
IntStr(i) == IF i < 0 THEN <<"-">> \o NatStr(0 - i) ELSE NatStr(i)

\* ", ".join(str(i) for i in ints)
RECURSIVE JoinInts(_)
JoinInts(ints) ==
  IF ints = <<>> THEN <<>>
  ELSE IF Len(ints) = 1 THEN IntStr(ints[1])
  ELSE IntStr(ints[1]) \o <<",", " ">> \o JoinInts(Tail(ints))

\* __repr__: the class name, then the sorted bits in parentheses.
GroupBitSet_repr(cls, enabled_bits) ==
  <<cls, "(">> \o JoinInts(to_sorted_bit_list(enabled_bits)) \o <<")">>

\* _REPR_RE of the class: ^<class name>(\([\d, ]*\))$
REPR_RE_match(cls, s) ==
  /\ Len(s) >= 3
  /\ s[1] = cls /\ s[2] = "(" /\ s[Len(s)] = ")"
  /\ \A i \in 3..(Len(s) - 1) : IsDigit(s[i]) \/ s[i] \in {",", " "}

\* The text between the parentheses of a matched string.
GroupBody(s) == SubSeq(s, 3, Len(s) - 1)

RECURSIVE RunValue(_)
RunValue(run) == IF run = <<>> THEN 0 ELSE RunValue(SubSeq(run, 1, Len(run) - 1)) * 10 + DigitVal(run[Len(run)])

\* Python's tokens of a text of digits, commas and blanks: a run of digits is one
\* number, which may not start with 0 unless it is all zeros.
RECURSIVE Tokens(_)
Tokens(b) ==
  IF b = <<>> THEN <<>>
  ELSE IF Head(b) = " " THEN Tokens(Tail(b))
  ELSE IF Head(b) = "," THEN <<[t |-> "comma", v |-> 0, ok |-> TRUE]>> \o Tokens(Tail(b))
  ELSE LET n == CHOOSE k \in 1..Len(b) :
                  /\ \A i \in 1..k : IsDigit(b[i])
                  /\ k = Len(b) \/ ~IsDigit(b[k + 1])
           run == SubSeq(b, 1, n)
       IN <<[t |-> "num", v |-> RunValue(run),
             ok |-> (run[1] # "0" \/ \A i \in 1..n : run[i] = "0")]>>
          \o Tokens(SubSeq(b, n + 1, Len(b)))

\* ast.literal_eval of "(" body ")": the empty tuple, an int in parentheses, a
\* tuple of ints (a trailing comma allowed), or a SyntaxError.
literal_eval(body) ==
  LET ts == Tokens(body)
      n == Len(ts)
      nums == [i \in 1..((n + 1) \div 2) |-> ts[2 * i - 1].v]
  IN IF \E i \in 1..n : ~ts[i].ok
       THEN [outcome |-> "SyntaxError", type |-> "none", elems |-> <<>>]
     ELSE IF n = 0
       THEN [outcome |-> "ok", type |-> "tuple", elems |-> <<>>]
     ELSE IF \A i \in 1..n : ts[i].t = (IF i % 2 = 1 THEN "num" ELSE "comma")
       THEN [outcome |-> "ok", type |-> IF n = 1 THEN "int" ELSE "tuple", elems |-> nums]
     ELSE [outcome |-> "SyntaxError", type |-> "none", elems |-> <<>>]

\* from_repr: match, evaluate, wrap a bare int, construct from the set.
GroupBitSet_from_repr(cls, repr_string) ==
  IF ~REPR_RE_match(cls, repr_string)
    THEN [outcome |-> "ValueError", bits |-> {}]
  ELSE LET lit == literal_eval(GroupBody(repr_string))
           bit_tuple == IF lit.type = "int" THEN <<lit.elems[1]>> ELSE lit.elems
           r == GroupBitSet_init(cls, ArgSet(0, {bit_tuple[i] : i \in 1..Len(bit_tuple)}))
       IN IF lit.outcome # "ok"
            THEN [outcome |-> lit.outcome, bits |-> {}]
            ELSE [outcome |-> r.outcome, bits |-> r.bits]

\* Bit indices whose text has one, two and three digits, and one below the range.
TextBits(cls) == {-1, 0, 7, 31, BIT_COUNT(cls) - 1, BIT_COUNT(cls)}

SampleChars == {"(", ")", ",", " ", "0", "1", "2"}

RECURSIVE SeqsUpTo(_, _)
SeqsUpTo(A, n) ==
  IF n = 0 THEN {<<>>}
  ELSE LET shorter == SeqsUpTo(A, n - 1)
       IN shorter \cup {Append(q, a) : q \in {r \in shorter : Len(r) = n - 1}, a \in A}

\* Strings handed to from_repr: nothing or a class name, then up to n characters.
SampleStrings(n) ==
  {pre \o q : pre \in {<<>>} \cup {<<cls>> : cls \in Classes}, q \in SeqsUpTo(SampleChars, n)}

TxIdle == tx = [stage |-> "idle", cls |-> "none", S |-> {}, bits |-> {}, str |-> <<>>,
                given |-> FALSE, outcome |-> "ok", parsed |-> {}]

TxInit ==
  \/ \E cls \in Classes : \E S \in SmallSets(TextBits(cls)) :
       tx = [stage |-> "input", cls |-> cls, S |-> S, bits |-> {}, str |-> <<>>,
             given |-> FALSE, outcome |-> "ok", parsed |-> {}]
  \/ \E cls \in Classes, s \in SampleStrings(MaxStrLen) :
       tx = [stage |-> "str", cls |-> cls, S |-> {}, bits |-> {}, str |-> s,
             given |-> TRUE, outcome |-> "ok", parsed |-> {}]

\* b = cls(S)
TxConstruct ==
  /\ tx.stage = "input"
  /\ LET r == GroupBitSet_init(tx.cls, ArgSet(0, tx.S))
     IN tx' = [tx EXCEPT !.stage = IF r.outcome = "ok" THEN "obj" ELSE "rejected",
                         !.outcome = r.outcome, !.bits = r.bits]
  /\ UNCHANGED nonTxVars

\* s = repr(b)
TxRepr ==
  /\ tx.stage = "obj"
  /\ tx' = [tx EXCEPT !.stage = "str", !.str = GroupBitSet_repr(tx.cls, tx.bits)]
  /\ UNCHANGED nonTxVars

\* cls.from_repr(s)
TxFromRepr ==
  /\ tx.stage = "str"
  /\ LET r == GroupBitSet_from_repr(tx.cls, tx.str)
     IN tx' = [tx EXCEPT !.stage = "parsed", !.outcome = r.outcome, !.parsed = r.bits]
  /\ UNCHANGED nonTxVars

TxNext == TxConstruct \/ TxRepr \/ TxFromRepr

(* ------------------------------------------------------------------ merge *)
\* MSB classes of three games, with the names of their dataclass fields in order.
MSBClasses == {"MSB_A", "MSB_B", "MSB_C"}

fields(cls) ==
  CASE cls = "MSB_A" -> <<"parts", "regions">>
    [] cls = "MSB_B" -> <<"regions", "parts">>
    [] cls = "MSB_C" -> <<"parts", "events">>

SeqRange(q) == {q[i] : i \in 1..Len(q)}

EntryNames == {"a", "b"}

\* filter_func arguments: none, something that cannot be called, two predicates.
Filters == {"None", "not_callable", "name_is_a", "reject_all"}
callable(f) == f \in {"name_is_a", "reject_all"}
Call(f, entry) == IF f = "name_is_a" THEN entry.name = "a" ELSE FALSE

\* An MSB holds, per field, a list of references to entries of the heap `ents`.
NoMSB == [cls |-> "none", lists |-> <<>>]
\* An entry in hand: its name and the place of the heap where the object lives
\* (0 for an object that is new and not yet listed anywhere).
EntriesOf(msb, f) ==
  [i \in 1..Len(msb.lists[f]) |-> [name |-> ents[msb.lists[f][i]].name, ref |-> msb.lists[f][i]]]

\* A copy that is the object itself.
deepcopy_shared(entry) == entry

\* copy.deepcopy of an entry: a new object with the same fields.
deepcopy(entry) == [entry EXCEPT !.ref = 0]

\* MSBEntryList.get_filtered_list: deep copies of the entries the filter passes
\* (of all of them without a filter), in order.
RECURSIVE get_filtered_list(_, _)
get_filtered_list(entries, filter_func) ==
  IF entries = <<>> THEN <<>>
  ELSE (IF filter_func = "None" \/ Call(filter_func, Head(entries))
          THEN <<deepcopy(Head(entries))>> ELSE <<>>)
       \o get_filtered_list(Tail(entries), filter_func)

\* MSBEntryList.get_entry_names
get_entry_names(entries) == [i \in 1..Len(entries) |-> entries[i].name]

\* The field names compared as sets, whatever their order.
FieldNamesDiffer_unordered(m1, m2) == SeqRange(fields(m1.cls)) # SeqRange(fields(m2.cls))

\* Whether merge refuses the two MSBs for their field names.
FieldNamesDiffer(m1, m2) == fields(m1.cls) # fields(m2.cls)

\* The loop of merge with one of its steps changed: "first_only" looks for
\* repeated names in the first field alone, "no_extend" leaves msb_2's entries
\* out, "swapped" lists msb_2's entries first, "unfiltered" looks for repeated
\* names among all entries, the rejected ones included.
RECURSIVE MergeListsVariant(_, _, _, _, _, _)
MergeListsVariant(m1, m2, k, filter_func, allow_repeated_names, variant) ==
  LET names == fields(m1.cls)
  IN IF k > Len(names) THEN [outcome |-> "ok", lists |-> <<>>, warned |-> <<>>]
     ELSE LET e1 == get_filtered_list(EntriesOf(m1, names[k]), filter_func)
              e2 == get_filtered_list(EntriesOf(m2, names[k]), filter_func)
              repeated == IF variant = "first_only" /\ k > 1 THEN {}
                          ELSE IF variant = "unfiltered"
                            THEN SeqRange(get_entry_names(EntriesOf(m1, names[k])))
                                   \cap SeqRange(get_entry_names(EntriesOf(m2, names[k])))
                          ELSE SeqRange(get_entry_names(e1)) \cap SeqRange(get_entry_names(e2))
              rest == MergeListsVariant(m1, m2, k + 1, filter_func, allow_repeated_names, variant)
          IN IF repeated # {} /\ ~allow_repeated_names
               THEN [outcome |-> "ValueError", lists |-> <<>>, warned |-> <<>>]
             ELSE IF rest.outcome # "ok" THEN rest
             ELSE [outcome |-> "ok",
                   lists |-> <<CASE variant = "no_extend" -> e1
                                 [] variant = "swapped" -> e2 \o e1
                                 [] OTHER -> e1 \o e2>> \o rest.lists,
                   warned |-> (IF repeated # {} THEN <<repeated>> ELSE <<>>) \o rest.warned]

MergeLists_first_only(m1, m2, k, filter_func, allow_repeated_names) ==
  MergeListsVariant(m1, m2, k, filter_func, allow_repeated_names, "first_only")

MergeLists_no_extend(m1, m2, k, filter_func, allow_repeated_names) ==
  MergeListsVariant(m1, m2, k, filter_func, allow_repeated_names, "no_extend")

MergeLists_swapped(m1, m2, k, filter_func, allow_repeated_names) ==
  MergeListsVariant(m1, m2, k, filter_func, allow_repeated_names, "swapped")

MergeLists_unfiltered(m1, m2, k, filter_func, allow_repeated_names) ==
  MergeListsVariant(m1, m2, k, filter_func, allow_repeated_names, "unfiltered")

\* The loop of merge over the fields from the k-th on: the merged lists (of
\* copies), the warnings logged, or the ValueError of the first field with a
\* repeated name.
RECURSIVE MergeLists(_, _, _, _, _)
MergeLists(m1, m2, k, filter_func, allow_repeated_names) ==
  LET names == fields(m1.cls)
  IN IF k > Len(names) THEN [outcome |-> "ok", lists |-> <<>>, warned |-> <<>>]
     ELSE LET msb_1_entries == get_filtered_list(EntriesOf(m1, names[k]), filter_func)
              msb_2_entries == get_filtered_list(EntriesOf(m2, names[k]), filter_func)
              repeated_names == SeqRange(get_entry_names(msb_1_entries))
                                  \cap SeqRange(get_entry_names(msb_2_entries))
              rest == MergeLists(m1, m2, k + 1, filter_func, allow_repeated_names)
          IN IF repeated_names # {} /\ ~allow_repeated_names
               THEN [outcome |-> "ValueError", lists |-> <<>>, warned |-> <<>>]
             ELSE IF rest.outcome # "ok"
               THEN rest
             ELSE [outcome |-> "ok",
                   lists |-> <<msb_1_entries \o msb_2_entries>> \o rest.lists,
                   warned |-> (IF repeated_names # {} THEN <<repeated_names>> ELSE <<>>)
                              \o rest.warned]

\* merge that takes allow_repeated_names for False whatever it is given.
merge_never_allow(m1, m2, filter_func, allow_repeated_names) ==
  IF filter_func # "None" /\ ~callable(filter_func)
    THEN [outcome |-> "ValueError", lists |-> <<>>, warned |-> <<>>]
  ELSE IF FieldNamesDiffer(m1, m2)
    THEN [outcome |-> "TypeError", lists |-> <<>>, warned |-> <<>>]
  ELSE MergeLists(m1, m2, 1, filter_func, FALSE)

\* merge that takes allow_repeated_names for True whatever it is given.
merge_always_allow(m1, m2, filter_func, allow_repeated_names) ==
  IF filter_func # "None" /\ ~callable(filter_func)
    THEN [outcome |-> "ValueError", lists |-> <<>>, warned |-> <<>>]
  ELSE IF FieldNamesDiffer(m1, m2)
    THEN [outcome |-> "TypeError", lists |-> <<>>, warned |-> <<>>]
  ELSE MergeLists(m1, m2, 1, filter_func, TRUE)

\* merge(msb_1, msb_2, filter_func, allow_repeated_names)
merge(m1, m2, filter_func, allow_repeated_names) ==
  IF filter_func # "None" /\ ~callable(filter_func)
    THEN [outcome |-> "ValueError", lists |-> <<>>, warned |-> <<>>]
  ELSE IF FieldNamesDiffer(m1, m2)
    THEN [outcome |-> "TypeError", lists |-> <<>>, warned |-> <<>>]
  ELSE MergeLists(m1, m2, 1, filter_func, allow_repeated_names)

\* The sum of the lengths of the first k lists.
RECURSIVE Total(_, _)
Total(lists, k) == IF k = 0 THEN 0 ELSE Total(lists, k - 1) + Len(lists[k])

RECURSIVE Flatten(_)
Flatten(lists) == IF lists = <<>> THEN <<>> ELSE Head(lists) \o Flatten(Tail(lists))

\* An MSB of class cls whose k-th field lists the entries at base + the places
\* of the k-th of `lists` in their concatenation.
BuildMSB(cls, lists, base) ==
  [cls |-> cls,
   lists |-> [f \in SeqRange(fields(cls)) |->
                LET k == CHOOSE j \in 1..Len(fields(cls)) : fields(cls)[j] = f
                IN [i \in 1..Len(lists[k]) |-> base + Total(lists, k - 1) + i]]]

\* The lists of an MSB in the order of its fields.
ListsOf(msb) == [k \in 1..Len(fields(msb.cls)) |-> msb.lists[fields(msb.cls)[k]]]

\* The entries of the two input MSBs: the first of the heap.
InputCount == Len(Flatten(ListsOf(msb_1))) + Len(Flatten(ListsOf(msb_2)))

\* How many of the first i entries of q are new objects.
RECURSIVE NewAmong(_, _)
NewAmong(q, i) == IF i = 0 THEN 0 ELSE NewAmong(q, i - 1) + (IF q[i].ref = 0 THEN 1 ELSE 0)

\* The MSB that msb_1.__class__(**merged_entry_lists) builds: each new object
\* gets the next place of the heap after `base`, any other keeps its place.
BuildMerged(cls, lists, base) ==
  LET all == Flatten(lists)
      place(i) == IF all[i].ref = 0 THEN base + NewAmong(all, i) ELSE all[i].ref
  IN [cls |-> cls,
      lists |-> [f \in SeqRange(fields(cls)) |->
                   LET k == CHOOSE j \in 1..Len(fields(cls)) : fields(cls)[j] = f
                   IN [i \in 1..Len(lists[k]) |-> place(Total(lists, k - 1) + i)]]]

\* The new objects among q, as entries of the heap.
RECURSIVE NewObjects(_)
NewObjects(q) ==
  IF q = <<>> THEN <<>>
  ELSE (IF Head(q).ref = 0 THEN <<[name |-> Head(q).name]>> ELSE <<>>) \o NewObjects(Tail(q))

\* Lists of entry names for the two fields of an MSB: MaxEntries names at most.
MSBContents ==
  {<<p, q>> : p \in SeqsUpTo(EntryNames, MaxEntries),
              q \in SeqsUpTo(EntryNames, MaxEntries)}

Named(q) == [i \in 1..Len(q) |-> [name |-> q[i]]]

MergeIdle ==
  /\ ents = <<>> /\ msb_1 = NoMSB /\ msb_2 = NoMSB /\ merged = NoMSB
  /\ mlast = [op |-> "none", outcome |-> "ok", filter |-> "None", allow |-> FALSE, warned |-> <<>>]

MergeInit ==
  \E c2 \in MSBClasses, n1 \in MSBContents, n2 \in MSBContents :
    /\ Len(n1[1]) + Len(n1[2]) <= MaxEntries
    /\ Len(n2[1]) + Len(n2[2]) <= MaxEntries
    /\ ents = Named(n1[1] \o n1[2] \o n2[1] \o n2[2])
    /\ msb_1 = BuildMSB("MSB_A", n1, 0)
    /\ msb_2 = BuildMSB(c2, n2, Len(n1[1]) + Len(n1[2]))
    /\ merged = NoMSB
    /\ mlast = [op |-> "none", outcome |-> "ok", filter |-> "None", allow |-> FALSE, warned |-> <<>>]

\* merged = merge(msb_1, msb_2, filter_func, allow_repeated_names): the copies
\* the new MSB lists are new entries of the heap; a call that raised returns nothing.
Merge(filter_func, allow_repeated_names) ==
  /\ msb_1.cls # "none"
  /\ LET r == merge(msb_1, msb_2, filter_func, allow_repeated_names)
         kept == SubSeq(ents, 1, InputCount)
     IN /\ IF r.outcome = "ok"
             THEN /\ ents' = kept \o NewObjects(Flatten(r.lists))
                  /\ merged' = BuildMerged(msb_1.cls, r.lists, Len(kept))
             ELSE /\ ents' = kept
                  /\ merged' = NoMSB
        /\ mlast' = [op |-> "merge", outcome |-> r.outcome, filter |-> filter_func,
                     allow |-> allow_repeated_names, warned |-> r.warned]
  /\ UNCHANGED <<msb_1, msb_2, nonMergeVars>>

\* The places of the heap an MSB lists.
PlacesOf(msb) == IF msb.cls = "none" THEN {} ELSE SeqRange(Flatten(ListsOf(msb)))

\* The first entry of each sublist of an MSB.
FirstPlaces(msb) ==
  IF msb.cls = "none" THEN {}
  ELSE {msb.lists[f][1] : f \in {g \in SeqRange(fields(msb.cls)) : msb.lists[g] # <<>>}}

\* The caller of merge renames an entry of the MSB it got, the first of a
\* sublist: entry.name = "z".
SetName(i) ==
  /\ mlast.op = "merge"
  /\ i \in FirstPlaces(merged)
  /\ ents[i].name # "z"
  /\ ents' = [ents EXCEPT ![i].name = "z"]
  /\ mlast' = [mlast EXCEPT !.op = "set_name"]
  /\ UNCHANGED <<msb_1, msb_2, merged, nonMergeVars>>

MergeNext ==
  \/ \E f \in Filters, allow \in BOOLEAN : Merge(f, allow)
  \/ \E i \in 1..Len(ents) : SetName(i)

(* --------------------------------------------------------- specifications *)
(* ------------------------------------------------ soulstruct.utilities.maths *)
\* Vector3 and Matrix3, over the integers: the vectors sampled have integer
\* coordinates and the rotations sampled are quarter turns about the vertical
\* (y) axis, whose matrices have entries -1, 0 and 1.
Zero == <<0, 0, 0>>
Vadd(a, b) == <<a[1] + b[1], a[2] + b[2], a[3] + b[3]>>
Vsub(a, b) == <<a[1] - b[1], a[2] - b[2], a[3] - b[3]>>
Dot(a, b) == a[1] * b[1] + a[2] * b[2] + a[3] * b[3]
Col(m, j) == <<m[1][j], m[2][j], m[3][j]>>
MatVec(m, v) == <<Dot(m[1], v), Dot(m[2], v), Dot(m[3], v)>>
MatRow(a, b, i) == <<Dot(a[i], Col(b, 1)), Dot(a[i], Col(b, 2)), Dot(a[i], Col(b, 3))>>
MatMul(a, b) == <<MatRow(a, b, 1), MatRow(a, b, 2), MatRow(a, b, 3)>>
Transpose(m) == <<Col(m, 1), Col(m, 2), Col(m, 3)>>

\* A turn that is no multiple of a quarter turn has no matrix among those sampled:
\* Skew stands for every such matrix and SkewAngle for its angle. Products with
\* Skew are Skew.
Skew == <<Zero, Zero, Zero>>
SkewAngle == 45

Cos(d) == CASE d % 360 = 0 -> 1 [] d % 360 = 180 -> -1 [] OTHER -> 0
Sin(d) == CASE d % 360 = 90 -> 1 [] d % 360 = 270 -> -1 [] OTHER -> 0

\* The matrix of a turn of d degrees about the y axis.
Yaw(d) == <<<<Cos(d), 0, Sin(d)>>, <<0, 1, 0>>, <<0 - Sin(d), 0, Cos(d)>>>>

\* Matrix3.from_euler_angles, for Euler angles (0, y, 0) in degrees.
from_euler_angles(e) ==
  IF e[1] = 0 /\ e[3] = 0 /\ e[2] % 90 = 0 THEN Yaw(e[2]) ELSE Skew

\* Matrix3.to_euler_angles: the yaw in (-180, 180].
to_euler_angles(m) ==
  IF m = Skew THEN <<0, SkewAngle, 0>>
  ELSE <<0, (CASE m[1][1] = 1 -> 0 [] m[1][3] = 1 -> 90 [] m[1][1] = -1 -> 180 [] OTHER -> -90), 0>>

\* A number given as an angle: n, or n times pi/2.
Num(n) == [n |-> n, pi |-> FALSE]
HalfPi(n) == [n |-> n, pi |-> TRUE]

\* A rotation argument: a matrix, Euler angles (0, y, 0), or the single number y.
RotMatrix(m) == [kind |-> "matrix", m |-> m, y |-> Num(0)]
RotEuler(y) == [kind |-> "euler", m |-> Skew, y |-> y]
RotNumber(y) == [kind |-> "number", m |-> Skew, y |-> y]

\* The angle y in degrees, y being read as radians or as degrees.
AngleDegrees(y, radians) ==
  IF y.n = 0 THEN 0
  ELSE IF radians THEN (IF y.pi THEN 90 * y.n ELSE SkewAngle)
  ELSE (IF y.pi THEN SkewAngle ELSE y.n)

\* resolve_rotation(rotation, radians=False): a matrix as it is, anything else
\* as the matrix of its Euler angles.
resolve_rotation(rotation, radians) ==
  IF rotation.kind = "matrix" THEN rotation.m
  ELSE from_euler_angles(<<0, AngleDegrees(rotation.y, radians), 0>>)

(* ------------------------------------------------------------- MSB entries *)
\* An entry of an MSB: Parts and Regions have translate and rotate, some Parts
\* have reflect_plane_height, Events have none of them.
Part(name, translate, rotate) ==
  [kind |-> "part", name |-> name, has_transform |-> TRUE, translate |-> translate,
   rotate |-> rotate, has_reflect_plane_height |-> FALSE, reflect_plane_height |-> 0]
Collision(name, translate, rotate, height) ==
  [Part(name, translate, rotate) EXCEPT !.has_reflect_plane_height = TRUE,
                                        !.reflect_plane_height = height]
Region(name, translate, rotate) == [Part(name, translate, rotate) EXCEPT !.kind = "region"]
Event(name) == [Part(name, Zero, Zero) EXCEPT !.kind = "event", !.has_transform = FALSE]

\* msb.get_parts(), msb.get_regions(): the places of the entries of a kind, in order.
EntriesOfKind(msb, kind) ==
  SelectSeq([i \in 1..Len(msb) |-> i], LAMBDA i : msb[i].kind = kind)
get_parts(msb) == EntriesOfKind(msb, "part")
get_regions(msb) == EntriesOfKind(msb, "region")

\* A selector: an entry (its place in the MSB) or a name.
SelEntry(i) == [kind |-> "entry", ref |-> i, name |-> ""]
SelName(n) == [kind |-> "name", ref |-> 0, name |-> n]

\* Every supertype of an MSB, in place of ("parts", "regions").
AnySupertype == {"part", "region", "event"}

\* supertypes=("parts", "regions")
PartsAndRegions == {"part", "region"}

\* msb.resolve_entries_list(selected_entries, supertypes): entries pass through,
\* a name is looked up among the entries of the supertypes and must be that of
\* exactly one of them.
RECURSIVE resolve_entries_list(_, _, _)
resolve_entries_list(msb, selected_entries, supertypes) ==
  IF selected_entries = <<>> THEN [outcome |-> "ok", entries |-> <<>>]
  ELSE LET sel == Head(selected_entries)
           found == {i \in 1..Len(msb) : msb[i].kind \in supertypes /\ msb[i].name = sel.name}
           rest == resolve_entries_list(msb, Tail(selected_entries), supertypes)
       IN IF sel.kind = "name" /\ found = {}
            THEN [outcome |-> "NotFound", entries |-> <<>>]
          ELSE IF sel.kind = "name" /\ Cardinality(found) > 1
            THEN [outcome |-> "Ambiguous", entries |-> <<>>]
          ELSE IF rest.outcome # "ok" THEN rest
          ELSE [outcome |-> "ok",
                entries |-> <<IF sel.kind = "entry" THEN sel.ref ELSE CHOOSE i \in found : TRUE>>
                              \o rest.entries]

\* `not selected_entries or entry in selected_entries`
Selected(i, selected_entries) == selected_entries = <<>> \/ i \in SeqRange(selected_entries)

(* --------------------------------------------------------------- transforms *)
\* An optional argument: given, or left to its default.
Given(v) == [given |-> TRUE, v |-> v]
NotGiven == [given |-> FALSE, v |-> Zero]

\* The names bound in the module when its functions run: those imported and
\* defined unconditionally. The imports under `if tp.TYPE_CHECKING:` are not
\* executed at run time.
TYPE_CHECKING == FALSE
RuntimeNames ==
  {"Matrix3", "Vector2", "Vector3", "Vector4", "resolve_rotation", "int_group_to_bit_set",
   "bit_set_to_int_group", "fields", "GroupBitSet128", "GroupBitSet256"}
  \cup (IF TYPE_CHECKING
          THEN {"MSB", "BaseMSBSubtype", "MSBEntry", "MSBEntryList", "BaseMSBPart", "BaseMSBRegion"}
          ELSE {})

\* The two assignments that end rotate_entry and rotate_part_or_region.
Rotated(entry, rotation, pivot_point) ==
  [entry EXCEPT !.rotate = to_euler_angles(MatMul(rotation, from_euler_angles(entry.rotate))),
                !.translate = Vadd(MatVec(rotation, Vsub(entry.translate, pivot_point)), pivot_point)]

\* rotate_entry turning the entry about the world origin whatever the pivot.
rotate_entry_about_origin(entry, rotation, pivot_point, radians) ==
  IF ~entry.has_transform
    THEN [outcome |-> "AttributeError", entry |-> entry]
    ELSE [outcome |-> "ok", entry |-> Rotated(entry, resolve_rotation(rotation, radians), Zero)]

\* rotate_entry(entry, rotation, pivot_point=(0, 0, 0), radians=False)
rotate_entry(entry, rotation, pivot_point, radians) ==
  LET rotation_m == resolve_rotation(rotation, radians)
      pivot == IF pivot_point.given THEN pivot_point.v ELSE Zero
  IN IF ~entry.has_transform
       THEN [outcome |-> "AttributeError", entry |-> entry]
       ELSE [outcome |-> "ok", entry |-> Rotated(entry, rotation_m, pivot)]

\* rotate_part_or_region(entry, rotation, pivot_point=None, radians=False): the
\* isinstance test looks up BaseMSBPart and BaseMSBRegion among the module's names.
rotate_part_or_region(entry, rotation, pivot_point, radians) ==
  IF ~({"BaseMSBPart", "BaseMSBRegion"} \subseteq RuntimeNames)
    THEN [outcome |-> "NameError", entry |-> entry]
  ELSE IF entry.kind \notin PartsAndRegions
    THEN [outcome |-> "TypeError", entry |-> entry]
  ELSE LET rotation_m == resolve_rotation(rotation, radians)
           pivot == IF pivot_point.given THEN pivot_point.v ELSE Zero
       IN [outcome |-> "ok", entry |-> Rotated(entry, rotation_m, pivot)]

\* The loops of rotate_all_in_world: the entries are rotated one after the other
\* and the first call that raises ends the loop.
RECURSIVE RotateEach(_, _, _, _, _)
RotateEach(msb, targets, rotation_m, pivot_point, radians) ==
  IF targets = <<>> THEN [outcome |-> "ok", msb |-> msb]
  ELSE LET r == rotate_part_or_region(msb[Head(targets)], RotMatrix(rotation_m),
                                      Given(pivot_point), radians)
       IN IF r.outcome # "ok"
            THEN [outcome |-> r.outcome, msb |-> msb]
            ELSE RotateEach([msb EXCEPT ![Head(targets)] = r.entry], Tail(targets),
                            rotation_m, pivot_point, radians)

\* rotate_all_in_world(msb, rotation, pivot_point=None, radians=False, selected_entries=())
rotate_all_in_world(msb, rotation, pivot_point, radians, selected_entries) ==
  LET sel == resolve_entries_list(msb, selected_entries, PartsAndRegions)
      rotation_m == resolve_rotation(rotation, FALSE)
      pivot == IF pivot_point.given THEN pivot_point.v ELSE Zero
      Chosen(i) == Selected(i, sel.entries)
  IN IF sel.outcome # "ok" THEN [outcome |-> sel.outcome, msb |-> msb]
     ELSE RotateEach(msb, SelectSeq(get_parts(msb), Chosen) \o SelectSeq(get_regions(msb), Chosen),
                     rotation_m, pivot, radians)

\* translate_all with reflect_plane_height left alone.
translate_all_no_height(msb, translate, selected_entries) ==
  LET sel == resolve_entries_list(msb, selected_entries, PartsAndRegions)
  IN IF sel.outcome # "ok" THEN [outcome |-> sel.outcome, msb |-> msb]
     ELSE [outcome |-> "ok",
           msb |-> [i \in 1..Len(msb) |->
                      IF msb[i].kind \in PartsAndRegions /\ Selected(i, sel.entries)
                        THEN [msb[i] EXCEPT !.translate = Vadd(@, translate)]
                        ELSE msb[i]]]

\* translate_all(msb, translate, selected_entries=())
translate_all(msb, translate, selected_entries) ==
  LET sel == resolve_entries_list(msb, selected_entries, PartsAndRegions)
      MovedPart(part) ==
        LET moved == [part EXCEPT !.translate = Vadd(@, translate)]
        IN IF part.has_reflect_plane_height
             THEN [moved EXCEPT !.reflect_plane_height = @ + translate[2]]
             ELSE moved
      MovedRegion(region) == [region EXCEPT !.translate = Vadd(@, translate)]
  IN IF sel.outcome # "ok" THEN [outcome |-> sel.outcome, msb |-> msb]
     ELSE [outcome |-> "ok",
           msb |-> [i \in 1..Len(msb) |->
                      IF ~Selected(i, sel.entries) THEN msb[i]
                      ELSE IF msb[i].kind = "part" THEN MovedPart(msb[i])
                      ELSE IF msb[i].kind = "region" THEN MovedRegion(msb[i])
                      ELSE msb[i]]]

\* The entries a resolved selection holds, as selectors again.
AsSelectors(entries) == [i \in 1..Len(entries) |-> SelEntry(entries[i])]

\* move_map(msb, start_translate, end_translate, start_rotate, end_rotate, selected_entries)
move_map(msb, start_translate, end_translate, start_rotate, end_rotate, selected_entries) ==
  LET sel == resolve_entries_list(msb, selected_entries, PartsAndRegions)
      m_start_rotate == from_euler_angles(start_rotate.v)
      m_end_rotate == from_euler_angles(end_rotate.v)
      m_world_rotation == MatMul(m_end_rotate, Transpose(m_start_rotate))
      translation == Vsub(end_translate.v, MatVec(m_world_rotation, start_translate.v))
      rotated == rotate_all_in_world(msb, RotMatrix(m_world_rotation), NotGiven, FALSE,
                                     AsSelectors(sel.entries))
  IN IF sel.outcome # "ok" THEN [outcome |-> sel.outcome, msb |-> msb]
     ELSE IF rotated.outcome # "ok" THEN rotated
     ELSE translate_all(rotated.msb, translation, AsSelectors(sel.entries))

(* ----------------------------------------------------- inputs of transforms *)
SampleVectors == {Zero, <<0, 2, 0>>, <<1, 2, 3>>}
SampleEulers == {Zero, <<0, 90, 0>>}
SampleRotations ==
  {RotNumber(Num(0)), RotNumber(Num(90)), RotNumber(HalfPi(1)), RotEuler(Num(270)),
   RotEuler(HalfPi(2)), RotMatrix(Yaw(90)), RotMatrix(Yaw(180))}
SamplePivots == {NotGiven, Given(<<1, 2, 3>>)}

\* An MSB with a Part that has reflect_plane_height, a Part that has not, a
\* Region named like the first Part, and an Event.
SampleWorlds ==
  {<<Collision("a", <<10, 0, 0>>, r1, 5), Part("b", <<1, 2, 3>>, Zero), Region("a", t3, r3), Event("e")>> :
     r1 \in SampleEulers, t3 \in {<<10, 0, 0>>, <<1, 2, 3>>}, r3 \in SampleEulers}

Selectors == {SelEntry(i) : i \in 1..4} \cup {SelName(n) : n \in {"a", "b", "e", "x"}}
SampleSelections == SeqsUpTo(Selectors, MaxSel)

NoCall ==
  [op |-> "none", outcome |-> "ok", entry |-> 0, rotation |-> RotNumber(Num(0)), radians |-> FALSE,
   pivot_point |-> NotGiven, translate |-> Zero, selected_entries |-> <<>>,
   start_translate |-> NotGiven, end_translate |-> NotGiven,
   start_rotate |-> NotGiven, end_rotate |-> NotGiven]

WorldIdle == world = <<>> /\ wlast = NoCall

WorldInit == world \in SampleWorlds /\ wlast = NoCall

\* rotate_entry(world[i], rotation, pivot_point, radians)
RotateEntry(i, rotation, pivot_point, radians) ==
  /\ wlast.op = "none"
  /\ LET r == rotate_entry(world[i], rotation, pivot_point, radians)
     IN /\ world' = [world EXCEPT ![i] = r.entry]
        /\ wlast' = [NoCall EXCEPT !.op = "rotate_entry", !.outcome = r.outcome, !.entry = i,
                       !.rotation = rotation, !.pivot_point = pivot_point, !.radians = radians]
  /\ UNCHANGED nonWorldVars

\* rotate_part_or_region(world[i], rotation, pivot_point, radians)
RotatePartOrRegion(i, rotation, pivot_point, radians) ==
  /\ wlast.op = "none"
  /\ LET r == rotate_part_or_region(world[i], rotation, pivot_point, radians)
     IN /\ world' = [world EXCEPT ![i] = r.entry]
        /\ wlast' = [NoCall EXCEPT !.op = "rotate_part_or_region", !.outcome = r.outcome,
                       !.entry = i, !.rotation = rotation, !.pivot_point = pivot_point,
                       !.radians = radians]
  /\ UNCHANGED nonWorldVars

\* rotate_all_in_world(world, rotation, pivot_point, radians, selected_entries)
RotateAllInWorld(rotation, pivot_point, radians, selected_entries) ==
  /\ wlast.op = "none"
  /\ LET r == rotate_all_in_world(world, rotation, pivot_point, radians, selected_entries)
     IN /\ world' = r.msb
        /\ wlast' = [NoCall EXCEPT !.op = "rotate_all_in_world", !.outcome = r.outcome,
                       !.rotation = rotation, !.pivot_point = pivot_point, !.radians = radians,
                       !.selected_entries = selected_entries]
  /\ UNCHANGED nonWorldVars

\* translate_all(world, translate, selected_entries)
TranslateAll(translate, selected_entries) ==
  /\ wlast.op = "none"
  /\ LET r == translate_all(world, translate, selected_entries)
     IN /\ world' = r.msb
        /\ wlast' = [NoCall EXCEPT !.op = "translate_all", !.outcome = r.outcome,
                       !.translate = translate, !.selected_entries = selected_entries]
  /\ UNCHANGED nonWorldVars

\* move_map(world, start_translate, end_translate, start_rotate, end_rotate, selected_entries)
MoveMap(start_translate, end_translate, start_rotate, end_rotate, selected_entries) ==
  /\ wlast.op = "none"
  /\ LET r == move_map(world, start_translate, end_translate, start_rotate, end_rotate,
                       selected_entries)
     IN /\ world' = r.msb
        /\ wlast' = [NoCall EXCEPT !.op = "move_map", !.outcome = r.outcome,
                       !.start_translate = start_translate, !.end_translate = end_translate,
                       !.start_rotate = start_rotate, !.end_rotate = end_rotate,
                       !.selected_entries = selected_entries]
  /\ UNCHANGED nonWorldVars

OptionalVectors == {NotGiven, Given(Zero), Given(<<10, 0, 0>>)}
OptionalEulers == {NotGiven, Given(Zero), Given(<<0, 90, 0>>), Given(<<0, 270, 0>>)}

WorldNext ==
  \/ wlast.op = "none" /\ \E i \in 1..Len(world), rotation \in SampleRotations, pivot_point \in SamplePivots,
        radians \in BOOLEAN : RotateEntry(i, rotation, pivot_point, radians)
  \/ wlast.op = "none" /\ \E i \in 1..Len(world), rotation \in SampleRotations, pivot_point \in SamplePivots,
        radians \in BOOLEAN : RotatePartOrRegion(i, rotation, pivot_point, radians)
  \/ wlast.op = "none" /\ \E rotation \in SampleRotations, pivot_point \in SamplePivots, radians \in BOOLEAN,
        selected_entries \in SampleSelections :
          RotateAllInWorld(rotation, pivot_point, radians, selected_entries)
  \/ wlast.op = "none" /\ \E translate \in SampleVectors, selected_entries \in SampleSelections :
          TranslateAll(translate, selected_entries)
  \/ wlast.op = "none" /\ \E start_translate \in OptionalVectors, end_translate \in OptionalVectors,
        start_rotate \in OptionalEulers, end_rotate \in OptionalEulers,
        selected_entries \in SampleSelections :
          MoveMap(start_translate, end_translate, start_rotate, end_rotate, selected_entries)

(* --------------------------------------------- project.runtime.RuntimeManager *)
\* project.GAME: its name and the name of its executable.
Games == {"Dark Souls Remastered", "Dark Souls Prepare to Die Edition"}
executable_name(game) ==
  IF game = "Dark Souls Remastered" THEN "DarkSoulsRemastered.exe" ELSE "DARKSOULS.exe"

\* What psutil.process_iter() yields: processes with a name and a pid.
Process(name, pid) == [name |-> name, pid |-> pid]
ProcessLists ==
  {<<>>,
   <<Process("explorer.exe", 1)>>,
   <<Process("explorer.exe", 1), Process("DarkSoulsRemastered.exe", 2)>>,
   <<Process("DarkSoulsRemastered.exe", 3), Process("DarkSoulsRemastered.exe", 2)>>,
   <<Process("DARKSOULS.exe", 4)>>}

\* The `for p in psutil.process_iter(): ... break ... else:` loop: the pid of the
\* first process with the name, 0 when the loop ends without a break.
FirstPid(procs, name) ==
  IF \E i \in 1..Len(procs) : procs[i].name = name
    THEN procs[CHOOSE i \in 1..Len(procs) :
                 procs[i].name = name /\ \A j \in 1..(i - 1) : procs[j].name # name].pid
    ELSE 0

\* A DSRMemoryHook for a process; None.
DSRMemoryHook(pid) == [pid |-> pid]
None == [pid |-> 0]

\* RuntimeManager.is_hooked
is_hooked(self) == self.hook # None

\* The state of a RuntimeManager after __init__: _hook and _THREAD_EXCEPTION are
\* None; _THREADED_HOOK is the class attribute, False unless a subclass sets it.
NewManager(threaded) == [hook |-> None, THREAD_EXCEPTION |-> FALSE, THREADED_HOOK |-> threaded]

\* The call of hook_into_game under way or last made: where the main thread is,
\* the hook thread, the pid found, whether DSRMemoryHook(pid) raises, the
\* dialogs shown, what the call returned, and counts of calls and of passes of
\* the waiting loop.
NoHookCall ==
  [pc |-> "idle", thread |-> "none", pid |-> 0, hook_raises |-> FALSE, dialogs |-> <<>>,
   ret |-> "none", calls |-> 0, updates |-> 0]

HookIdle == manager = NewManager(FALSE) /\ hk = NoHookCall

HookInit == (\E threaded \in BOOLEAN : manager = NewManager(threaded)) /\ hk = NoHookCall

\* hook_into_game up to the hook itself: the two early returns, the direct hook
\* with the dialog and `return True` that follow it, or the start of the hook
\* thread in _do_threaded_hook.
HookIntoGame(game, psutil, procs, hook_raises) ==
  /\ hk.pc = "idle" /\ hk.calls < MaxCalls
  /\ LET pid == FirstPid(procs, executable_name(game))
         call == [NoHookCall EXCEPT !.calls = hk.calls + 1, !.hook_raises = hook_raises]
     IN IF game # "Dark Souls Remastered"
          THEN /\ hk' = [call EXCEPT !.dialogs = <<"Remastered Only">>, !.ret = "False"]
               /\ UNCHANGED manager
        ELSE IF ~psutil
          THEN /\ hk' = [call EXCEPT !.ret = "AttributeError"]
               /\ UNCHANGED manager
        ELSE IF pid = 0
          THEN /\ hk' = [call EXCEPT !.dialogs = <<"Game Not Running">>, !.ret = "False"]
               /\ UNCHANGED manager
        ELSE IF manager.THREADED_HOOK
          THEN /\ hk' = [call EXCEPT !.pc = "loading", !.thread = "alive", !.pid = pid,
                                     !.dialogs = <<"Hooking game...">>]
               /\ UNCHANGED manager
        ELSE IF hook_raises
          THEN /\ hk' = [call EXCEPT !.pid = pid, !.ret = "Exception"]
               /\ UNCHANGED manager
        ELSE /\ manager' = [manager EXCEPT !.hook = DSRMemoryHook(pid)]
             /\ hk' = [call EXCEPT !.pid = pid, !.dialogs = <<"Hook Successful">>, !.ret = "True"]
  /\ UNCHANGED nonHookVars

\* _threaded_hook, the target of the hook thread: it stores the hook, or stores
\* the exception and ends with it.
ThreadedHook ==
  /\ hk.thread = "alive"
  /\ IF hk.hook_raises
       THEN manager' = [manager EXCEPT !.THREAD_EXCEPTION = TRUE]
       ELSE manager' = [manager EXCEPT !.hook = DSRMemoryHook(hk.pid)]
  /\ hk' = [hk EXCEPT !.thread = "dead"]
  /\ UNCHANGED nonHookVars

\* One pass of `while hook_thread.is_alive(): loading.update(); time.sleep(1 / 60)`.
LoadingUpdate ==
  /\ hk.pc = "loading" /\ hk.thread = "alive" /\ hk.updates < MaxUpdates
  /\ hk' = [hk EXCEPT !.updates = @ + 1]
  /\ UNCHANGED <<manager, nonHookVars>>

\* The hook thread has ended: the rest of _do_threaded_hook, whose result
\* hook_into_game drops, then the dialog and `return True` of hook_into_game.
HookIntoGameReturn ==
  /\ hk.pc = "loading" /\ hk.thread = "dead"
  /\ manager' = [manager EXCEPT !.THREAD_EXCEPTION = FALSE]
  /\ hk' = [hk EXCEPT !.pc = "idle", !.thread = "none", !.ret = "True",
                      !.dialogs = @ \o (IF manager.THREAD_EXCEPTION THEN <<"Import Error">> ELSE <<>>)
                                      \o <<"Hook Successful">>]
  /\ UNCHANGED nonHookVars

HookNext ==
  \/ \E game \in Games, psutil \in BOOLEAN, procs \in ProcessLists, hook_raises \in BOOLEAN :
       HookIntoGame(game, psutil, procs, hook_raises)
  \/ ThreadedHook
  \/ LoadingUpdate
  \/ HookIntoGameReturn

(* ------------------------------------------------ params: DrawParam tables *)
\* str.lower and str.startswith, a string being a sequence of characters.
UpperCase == <<"A", "B", "C", "D", "E", "F", "G", "H", "I", "J", "K", "L", "M",
               "N", "O", "P", "Q", "R", "S", "T", "U", "V", "W", "X", "Y", "Z">>
LowerCase == <<"a", "b", "c", "d", "e", "f", "g", "h", "i", "j", "k", "l", "m",
               "n", "o", "p", "q", "r", "s", "t", "u", "v", "w", "x", "y", "z">>
lower(str) ==
  [i \in 1..Len(str) |->
     IF \E k \in 1..Len(UpperCase) : UpperCase[k] = str[i]
       THEN LowerCase[CHOOSE k \in 1..Len(UpperCase) : UpperCase[k] = str[i]]
       ELSE str[i]]
startswith(str, prefix) == Len(str) >= Len(prefix) /\ SubSeq(str, 1, Len(prefix)) = prefix

\* Row names of DrawParam tables: "", "0", "00", "Fog", "Po", "PolyG", "polyg1", "POLYG0".
SampleRowNames ==
  {<<>>, <<"0">>, <<"0", "0">>, <<"F", "o", "g">>, <<"P", "o">>, <<"P", "o", "l", "y", "G">>,
   <<"p", "o", "l", "y", "g", "1">>, <<"P", "O", "L", "Y", "G", "0">>}

\* self.rows: a dictionary from row indices to rows, a row being its name here.
SampleRows == UNION {[ids -> SampleRowNames] : ids \in SUBSET (1..MaxRows)}
NoRows == [i \in {} |-> <<>>]

\* darksouls1ptde DrawParam.get_nonzero_entries(ignore_polyg=True), over row.Name
get_nonzero_entries(rows, ignore_polyg) ==
  IF ignore_polyg
    THEN LET kept == {index \in DOMAIN rows : rows[index] # <<>> /\ ~startswith(rows[index], <<"0">>)}
         IN [index \in kept |-> rows[index]]
    ELSE LET kept == {index \in DOMAIN rows :
                        /\ rows[index] # <<>> /\ ~startswith(rows[index], <<"0">>)
                        /\ ~startswith(lower(rows[index]), <<"p", "o", "l", "y", "g">>)}
         IN [index \in kept |-> rows[index]]

\* darksouls1r DrawParam.get_nonzero_entries(ignore_polyg=True), over row.name
get_nonzero_entries_dsr(rows, ignore_polyg) ==
  IF ignore_polyg
    THEN LET kept == {index \in DOMAIN rows : rows[index] # <<>> /\ ~startswith(rows[index], <<"0">>)}
         IN [index \in kept |-> rows[index]]
    ELSE LET kept == {index \in DOMAIN rows :
                        /\ rows[index] # <<>> /\ ~startswith(rows[index], <<"0">>)
                        /\ ~startswith(lower(rows[index]), <<"p", "o", "l", "y", "g">>)}
         IN [index \in kept |-> rows[index]]

NoDrawCall == [op |-> "none", cls |-> "none", ignore_polyg |-> TRUE, result |-> NoRows]

DrawIdle == draw_param = NoRows /\ dlast = NoDrawCall

DrawInit == draw_param \in SampleRows /\ dlast = NoDrawCall

\* result = draw_param.get_nonzero_entries(ignore_polyg), draw_param a darksouls1ptde DrawParam
GetNonzeroEntries(ignore_polyg) ==
  /\ dlast.op = "none"
  /\ dlast' = [op |-> "get_nonzero_entries", cls |-> "darksouls1ptde", ignore_polyg |-> ignore_polyg,
               result |-> get_nonzero_entries(draw_param, ignore_polyg)]
  /\ UNCHANGED <<draw_param, nonDrawVars>>

\* The same, draw_param a darksouls1r DrawParam
GetNonzeroEntriesDSR(ignore_polyg) ==
  /\ dlast.op = "none"
  /\ dlast' = [op |-> "get_nonzero_entries", cls |-> "darksouls1r", ignore_polyg |-> ignore_polyg,
               result |-> get_nonzero_entries_dsr(draw_param, ignore_polyg)]
  /\ UNCHANGED <<draw_param, nonDrawVars>>

DrawNext ==
  \/ \E ignore_polyg \in BOOLEAN : GetNonzeroEntries(ignore_polyg)
  \/ \E ignore_polyg \in BOOLEAN : GetNonzeroEntriesDSR(ignore_polyg)

(* ------------------------------------------------------ events.shared.tests *)
\* None, where an argument is a number or None.
NoValue == -128

\* EventEndType.End and EventEndType.Restart; a bool among the arguments of an
\* instruction is the integer it is in Python.
EventEndType_End == 0
EventEndType_Restart == 1
BoolInt(b) == IF b THEN 1 ELSE 0

\* An EMEVD instruction built by a function of events.shared.instructions: the
\* function and its arguments in order. NoInstruction is a test returning None.
Instruction(name, args) == [name |-> name, args |-> args]
NoInstruction == Instruction("None", <<>>)

\* The arguments of a test: the flag or map tested and the keyword arguments.
TestArgs(target, condition, negate, skip_lines, end_event, restart_event) ==
  [target |-> target, condition |-> condition, negate |-> negate, skip_lines |-> skip_lines,
   end_event |-> end_event, restart_event |-> restart_event]

\* How Python binds the arguments of a call to the parameters of a function: the
\* positional arguments go to the first parameters, and a parameter given both
\* by position and by keyword, a keyword that is no parameter, too many
\* positional arguments or a missing required parameter is a TypeError.
bind_arguments(parameters, required, positional, keywords) ==
  IF \/ Len(positional) > Len(parameters)
     \/ \E i \in 1..Len(positional) : parameters[i] \in keywords
     \/ ~(keywords \subseteq SeqRange(parameters))
     \/ \E i \in (Len(positional) + 1)..Len(parameters) :
          parameters[i] \in required /\ parameters[i] \notin keywords
    THEN "TypeError"
    ELSE "ok"

\* def FlagEnabled(flag, condition=None, negate=False, skip_lines=0, end_event=False, restart_event=False)
FlagEnabled_parameters == <<"flag", "condition", "negate", "skip_lines", "end_event", "restart_event">>
FlagEnabled(a) ==
  [outcome |-> "ok",
   result |->
     IF a.condition # NoValue
       THEN (IF a.negate THEN Instruction("IfFlagOff", <<a.condition, a.target>>)
                         ELSE Instruction("IfFlagOn", <<a.condition, a.target>>))
     ELSE IF a.skip_lines > 0
       THEN (IF a.negate THEN Instruction("SkipLinesIfFlagOn", <<a.skip_lines, a.target>>)
                         ELSE Instruction("SkipLinesIfFlagOff", <<a.skip_lines, a.target>>))
     ELSE IF a.end_event
       THEN (IF a.negate THEN Instruction("EndIfFlagOff", <<a.target>>)
                         ELSE Instruction("EndIfFlagOn", <<a.target>>))
     ELSE IF a.restart_event
       THEN (IF a.negate THEN Instruction("RestartIfFlagOff", <<a.target>>)
                         ELSE Instruction("RestartIfFlagOn", <<a.target>>))
     ELSE NoInstruction]

\* FlagDisabled: FlagEnabled called with every argument by keyword and negate inverted.
FlagDisabled(a) ==
  IF bind_arguments(FlagEnabled_parameters, {"flag"}, <<>>,
                    {"flag", "condition", "negate", "skip_lines", "end_event", "restart_event"}) # "ok"
    THEN [outcome |-> "TypeError", result |-> NoInstruction]
    ELSE FlagEnabled([a EXCEPT !.negate = ~a.negate])

\* def InsideMap(game_map, condition=None, negate=False, skip_lines=0, end_event=False, restart_event=False)
InsideMap_parameters == <<"game_map", "condition", "negate", "skip_lines", "end_event", "restart_event">>
InsideMap(a) ==
  [outcome |-> "ok",
   result |->
     IF a.skip_lines > 0
       THEN Instruction("SkipLinesIfMapPresenceState", <<a.skip_lines, BoolInt(a.negate), a.target>>)
     ELSE IF a.end_event
       THEN Instruction("TerminateIfMapPresenceState", <<EventEndType_End, BoolInt(~a.negate), a.target>>)
     ELSE IF a.restart_event
       THEN Instruction("SkipLinesIfMapPresenceState", <<EventEndType_Restart, BoolInt(~a.negate), a.target>>)
     ELSE Instruction("IfMapPresenceState", <<a.condition, BoolInt(~a.negate), a.target>>)]

\* OutsideMap(game_map, sub_index=None, condition=None, negate=False, ...): InsideMap
\* called with game_map and sub_index by position and the rest by keyword.
OutsideMap(a, sub_index) ==
  IF bind_arguments(InsideMap_parameters, {"game_map"}, <<a.target, sub_index>>,
                    {"condition", "negate", "skip_lines", "end_event", "restart_event"}) # "ok"
    THEN [outcome |-> "TypeError", result |-> NoInstruction]
    ELSE InsideMap([a EXCEPT !.negate = ~a.negate])

\* Arguments of the calls: flags, maps, condition groups (MAIN is 0), lines to skip.
SampleFlags == {11, 12}
SampleMaps == {10, 12}
SampleConditions == {NoValue, 0, -1}
SampleSkipLines == {0, MaxSkip}
SampleSubIndices == {NoValue, 1}
SampleTestArgs(targets) ==
  {TestArgs(target, condition, negate, skip_lines, end_event, restart_event) :
     target \in targets, condition \in SampleConditions, negate \in BOOLEAN,
     skip_lines \in SampleSkipLines, end_event \in BOOLEAN, restart_event \in BOOLEAN}

NoTestCall ==
  [test |-> "none", args |-> TestArgs(0, NoValue, FALSE, 0, FALSE, FALSE), sub_index |-> NoValue,
   outcome |-> "ok", result |-> NoInstruction]

TestIdle == elast = NoTestCall

TestInit == elast = NoTestCall

\* The record of a call of a test, with what it raised or returned.
TestCalled(test, a, sub_index, r) ==
  [test |-> test, args |-> a, sub_index |-> sub_index, outcome |-> r.outcome, result |-> r.result]

\* FlagEnabled(**a) in an event script
CallFlagEnabled(a) ==
  /\ elast.test = "none"
  /\ elast' = TestCalled("FlagEnabled", a, NoValue, FlagEnabled(a))
  /\ UNCHANGED nonTestVars

\* FlagDisabled(**a)
CallFlagDisabled(a) ==
  /\ elast.test = "none"
  /\ elast' = TestCalled("FlagDisabled", a, NoValue, FlagDisabled(a))
  /\ UNCHANGED nonTestVars

\* InsideMap(**a)
CallInsideMap(a) ==
  /\ elast.test = "none"
  /\ elast' = TestCalled("InsideMap", a, NoValue, InsideMap(a))
  /\ UNCHANGED nonTestVars

\* OutsideMap(sub_index=sub_index, **a)
CallOutsideMap(a, sub_index) ==
  /\ elast.test = "none"
  /\ elast' = TestCalled("OutsideMap", a, sub_index, OutsideMap(a, sub_index))
  /\ UNCHANGED nonTestVars

TestNext ==
  \/ \E a \in SampleTestArgs(SampleFlags) : CallFlagEnabled(a)
  \/ \E a \in SampleTestArgs(SampleFlags) : CallFlagDisabled(a)
  \/ \E a \in SampleTestArgs(SampleMaps) : CallInsideMap(a)
  \/ \E a \in SampleTestArgs(SampleMaps), sub_index \in SampleSubIndices : CallOutsideMap(a, sub_index)

Init == BitsInit /\ RtIdle /\ TxIdle /\ MergeIdle /\ WorldIdle /\ HookIdle /\ DrawIdle /\ TestIdle
Spec == Init /\ [][BitsNext]_vars

InitRoundTrip == BitsIdle /\ RtInit /\ TxIdle /\ MergeIdle /\ WorldIdle /\ HookIdle /\ DrawIdle /\ TestIdle
SpecRoundTrip == InitRoundTrip /\ [][RtNext]_vars

InitText == BitsIdle /\ RtIdle /\ TxInit /\ MergeIdle /\ WorldIdle /\ HookIdle /\ DrawIdle /\ TestIdle
SpecText == InitText /\ [][TxNext]_vars

InitMerge == BitsIdle /\ RtIdle /\ TxIdle /\ MergeInit /\ WorldIdle /\ HookIdle /\ DrawIdle /\ TestIdle
SpecMerge == InitMerge /\ [][MergeNext]_vars

InitTransform == BitsIdle /\ RtIdle /\ TxIdle /\ MergeIdle /\ WorldInit /\ HookIdle /\ DrawIdle /\ TestIdle
SpecTransform == InitTransform /\ [][WorldNext]_vars

InitHook == BitsIdle /\ RtIdle /\ TxIdle /\ MergeIdle /\ WorldIdle /\ HookInit /\ DrawIdle /\ TestIdle
SpecHook == InitHook /\ [][HookNext]_vars

InitDraw == BitsIdle /\ RtIdle /\ TxIdle /\ MergeIdle /\ WorldIdle /\ HookIdle /\ DrawInit /\ TestIdle
SpecDraw == InitDraw /\ [][DrawNext]_vars

InitTests == BitsIdle /\ RtIdle /\ TxIdle /\ MergeIdle /\ WorldIdle /\ HookIdle /\ DrawIdle /\ TestInit
SpecTests == InitTests /\ [][TestNext]_vars

(* ----------------------------------------------------------------- claims *)
InRange(cls, b) == 0 <= b /\ b < BIT_COUNT(cls)

\* C1: after any calls that did not raise, every member of every instance's
\* enabled_bits satisfies 0 <= bit < BIT_COUNT.
C1_EnabledBitsInRange ==
  \A o \in ObjIds : Live(o) => \A b \in Bits(o) : InRange(objs[o].cls, b)

\* C2: add(BIT_COUNT) and add(-1) raise a range error and leave enabled_bits as it
\* was; add(BIT_COUNT - 1) succeeds and makes BIT_COUNT - 1 a member.
C2_AddRangeEnforced ==
  [][last'.op = "add" =>
       /\ last'.bit \in {-1, BIT_COUNT(last'.cls)} =>
            last'.outcome = "ValueError" /\ cells' = cells
       /\ last'.bit = BIT_COUNT(last'.cls) - 1 =>
            last'.outcome = "ok" /\ last'.bit \in cells'[objs'[last'.x].cell]]_vars

\* C3: constructing from a list of words raises a size-mismatch error whenever the
\* list does not have BIT_COUNT / 32 words, and succeeds only when it has.
C3_WordCountEnforced ==
  (last.op = "new" /\ last.kind = "list") =>
    IF last.bit = BIT_COUNT(last.cls) \div WORD_BITS
      THEN last.outcome = "ok"
      ELSE last.outcome = "ValueError"

\* C7: remove(bit) of a bit that is not a member raises and leaves enabled_bits as
\* it was; of a member, it removes that bit and no other.
C7_RemoveMemberOrRaise ==
  [][last'.op = "remove" =>
       LET c == objs[last'.x].cell
       IN IF last'.bit \in cells[c]
            THEN last'.outcome = "ok" /\ cells' = [cells EXCEPT ![c] = @ \ {last'.bit}]
            ELSE last'.outcome # "ok" /\ cells' = cells]_vars

\* C8: for two instances A and B of one class, A | B (and so B | A) returns an
\* instance whose members are exactly the union of A's and B's.
C8_UnionOfSameWidth ==
  [][(last'.op = "or" /\ last'.kind = "instance" /\ objs[last'.y].cls = last'.cls) =>
       /\ last'.outcome = "ok"
       /\ cells'[objs'[last'.z].cell] = Bits(last'.x) \cup Bits(last'.y)]_vars

\* The result bound to slot z is an instance of its own: no other slot, and not
\* the caller, holds its set.
NewInstanceAt(z) ==
  /\ \A o \in ObjIds \ {z} : objs'[o].cell # objs'[z].cell
  /\ callerSet' # objs'[z].cell

\* Every instance other than the one slot z held, and the caller's set, is as before.
OperandsUnchanged(z) ==
  /\ \A o \in ObjIds \ {z} : objs'[o] = objs[o] /\ (Live(o) => cells'[objs[o].cell] = Bits(o))
  /\ callerSet' = callerSet
  /\ callerSet # 0 => cells'[callerSet] = cells[callerSet]

AcceptedOperand == last'.kind = "set" \/ (last'.kind = "instance" /\ objs[last'.y].cls = last'.cls)

OtherBits == IF last'.kind = "set" THEN last'.set ELSE Bits(last'.y)

\* C9 as stated: | returns a new instance and leaves both operands as they were
\* when the other operand is an instance of the same class or a set, and raises
\* a type error, changing nothing, for any other operand.
C9_UnionFrame_Stated ==
  [][last'.op = "or" =>
       IF AcceptedOperand
         THEN last'.outcome = "ok" /\ NewInstanceAt(last'.z) /\ OperandsUnchanged(last'.z)
         ELSE last'.outcome = "TypeError" /\ objs' = objs /\ cells' = cells]_vars

\* C9, amended: | returns a new instance and leaves both operands as they were
\* when the other operand is an instance of the same class or a set and no bit of
\* the union is BIT_COUNT or more; in every other case it raises a type error and
\* changes nothing.
C9_UnionFrame ==
  [][last'.op = "or" =>
       IF AcceptedOperand /\ \A b \in Bits(last'.x) \cup OtherBits : b < BIT_COUNT(last'.cls)
         THEN last'.outcome = "ok" /\ NewInstanceAt(last'.z) /\ OperandsUnchanged(last'.z)
         ELSE last'.outcome = "TypeError" /\ objs' = objs /\ cells' = cells]_vars

\* A union of two different non-empty instances was bound to the other slot...
C9_Witness ==
  /\ last.op = "or" /\ last.outcome = "ok" /\ last.kind = "instance"
  /\ last.z # last.x /\ Bits(last.x) # {} /\ Bits(last.z) # {}

\* seq lists the members of S in ascending order, each once.
IsSortedListOf(seq, S) ==
  /\ SeqRange(seq) = S
  /\ \A i \in 1..Len(seq), j \in 1..Len(seq) : i < j => seq[i] < seq[j]

\* C4: for a set S of indices in [0, BIT_COUNT), to_uints() of an instance built
\* from S returns BIT_COUNT/32 words in which bit i of word w is set iff
\* 32*w + i is in S, and the instance built from those words has
\* to_sorted_bit_list() == sorted(S).
C4_WordsRoundTrip ==
  /\ rt.stage # "rejected"
  /\ rt.stage \in {"uints", "back"} =>
       /\ Len(rt.words) = WordCount(rt.cls)
       /\ \A w \in 1..Len(rt.words), i \in 0..(WORD_BITS - 1) :
            (i \in rt.words[w]) <=> ((w - 1) * WORD_BITS + i \in rt.S)
  /\ rt.stage = "back" => rt.outcome = "ok" /\ IsSortedListOf(rt.back, rt.S)

\* Two bits of different words went to words and came back.
C4_Witness ==
  /\ rt.stage = "back" /\ Len(rt.back) = 2
  /\ rt.back[1] \div WORD_BITS # rt.back[2] \div WORD_BITS
  /\ rt.back[2] % WORD_BITS = WORD_BITS - 1

\* C5: for every set S the constructor accepts, from_repr(repr(cls(S))) succeeds
\* with the members of cls(S), and repr is the class name followed by the bits
\* in parentheses.
C5_ReprRoundTrip ==
  /\ (tx.stage \in {"str", "parsed"} /\ ~tx.given) =>
       tx.str[1] = tx.cls /\ tx.str[2] = "(" /\ tx.str[Len(tx.str)] = ")"
  /\ (tx.stage = "parsed" /\ ~tx.given) => tx.outcome = "ok" /\ tx.parsed = tx.bits

\* The numbers a string mentions: the values of its runs of digits.
NumbersIn(s) ==
  LET ts == Tokens([i \in 1..Len(s) |-> IF IsDigit(s[i]) THEN s[i] ELSE " "])
  IN {ts[i].v : i \in 1..Len(ts)}

\* s is the canonical text of an instance of cls: the repr of the numbers it
\* mentions, all of them in the range of cls.
Canonical(cls, s) ==
  /\ \A n \in NumbersIn(s) : InRange(cls, n)
  /\ s = GroupBitSet_repr(cls, NumbersIn(s))

\* C6: from_repr raises a format error, the same in every case, on every string
\* that is not the canonical text of an instance of its class, and returns no
\* instance for it.
C6_FromReprRejects ==
  (tx.stage = "parsed" /\ tx.given /\ ~Canonical(tx.cls, tx.str)) => tx.outcome = "ValueError"

FilterUsable(f) == f = "None" \/ callable(f)

InputsUnmodified ==
  /\ msb_1' = msb_1 /\ msb_2' = msb_2
  /\ SubSeq(ents', 1, InputCount) = SubSeq(ents, 1, InputCount)

\* C10 as stated: merge raises a schema-mismatch error whenever the field-name
\* lists of the two MSBs differ, whatever the entries, the filter and the flag,
\* and modifies neither input.
C10_SchemaMismatch_Stated ==
  [][(mlast'.op = "merge" /\ fields(msb_1.cls) # fields(msb_2.cls)) =>
       mlast'.outcome = "TypeError" /\ InputsUnmodified]_vars

\* C10, amended: the same whenever filter_func is None or callable (a filter_func
\* that is neither is refused first, with a ValueError).
C10_SchemaMismatch ==
  [][(mlast'.op = "merge" /\ fields(msb_1.cls) # fields(msb_2.cls) /\ FilterUsable(mlast'.filter)) =>
       mlast'.outcome = "TypeError" /\ merged' = NoMSB /\ InputsUnmodified]_vars

\* Two non-empty MSBs with the same field names in another order were refused,
\* with a filter and with repeated names allowed.
C10_Witness ==
  /\ mlast.op = "merge" /\ mlast.outcome = "TypeError"
  /\ SeqRange(fields(msb_1.cls)) = SeqRange(fields(msb_2.cls))
  /\ callable(mlast.filter) /\ mlast.allow
  /\ msb_1.lists["parts"] # <<>> /\ msb_2.lists["parts"] # <<>>

\* The names, in order, of the entries of a sublist that the filter passes.
PassSeq(msb, f, flt) ==
  LET all == [i \in 1..Len(msb.lists[f]) |-> ents[msb.lists[f][i]].name]
      Test(n) == flt = "None" \/ Call(flt, [name |-> n])
  IN SelectSeq(all, Test)

\* A name occurs in the filtered entries of both inputs for subtype f.
CollisionIn(f, flt) == SeqRange(PassSeq(msb_1, f, flt)) \cap SeqRange(PassSeq(msb_2, f, flt)) # {}

CommonFields == SeqRange(fields(msb_1.cls)) \cap SeqRange(fields(msb_2.cls))

SameFields == fields(msb_1.cls) = fields(msb_2.cls)

Count(q, n) == Cardinality({i \in 1..Len(q) : q[i] = n})

\* C11 as stated: with allow_repeated_names false and a name in the filtered
\* entries of both collections for one subtype, merge raises the name-collision
\* error, returns nothing and leaves both inputs as they were.
C11_CollisionAborts_Stated ==
  [][(/\ mlast'.op = "merge" /\ ~mlast'.allow /\ FilterUsable(mlast'.filter)
      /\ \E f \in CommonFields : CollisionIn(f, mlast'.filter)) =>
       mlast'.outcome = "ValueError" /\ merged' = NoMSB /\ InputsUnmodified]_vars

\* C11, amended: the same for two collections with identical field-name lists
\* (collections whose field names differ are refused with the schema-mismatch
\* error first), whichever subtype holds the collision.
C11_CollisionAborts ==
  [][(/\ mlast'.op = "merge" /\ ~mlast'.allow /\ FilterUsable(mlast'.filter)
      /\ SameFields
      /\ \E f \in CommonFields : CollisionIn(f, mlast'.filter)) =>
       mlast'.outcome = "ValueError" /\ merged' = NoMSB /\ InputsUnmodified]_vars

\* A merge was refused for a name repeated in the second subtype alone, the
\* first subtype having entries on both sides.
C11_Witness ==
  /\ mlast.op = "merge" /\ mlast.outcome = "ValueError" /\ ~mlast.allow /\ mlast.filter = "None"
  /\ SameFields
  /\ ~CollisionIn(fields(msb_1.cls)[1], "None") /\ CollisionIn(fields(msb_1.cls)[2], "None")
  /\ msb_1.lists[fields(msb_1.cls)[1]] # <<>> /\ msb_2.lists[fields(msb_1.cls)[1]] # <<>>
  /\ Len(ents) = InputCount

\* C12: with allow_repeated_names true, merge never fails for a name that occurs
\* on both sides: it returns a collection whose sublist holds the same-named
\* entries of both inputs, and the collision is logged.
C12_RepeatedNamesAllowed ==
  [][(mlast'.op = "merge" /\ mlast'.allow /\ FilterUsable(mlast'.filter)) =>
       /\ mlast'.outcome \in {"ok", "TypeError"}
       /\ SameFields =>
            /\ mlast'.outcome = "ok"
            /\ \A f \in CommonFields :
                 LET out == [i \in 1..Len(merged'.lists[f]) |-> ents'[merged'.lists[f][i]].name]
                     in1 == PassSeq(msb_1, f, mlast'.filter)
                     in2 == PassSeq(msb_2, f, mlast'.filter)
                 IN /\ \A n \in SeqRange(in1) \cap SeqRange(in2) :
                         Count(out, n) = Count(in1, n) + Count(in2, n)
                    /\ CollisionIn(f, mlast'.filter) =>
                         \E w \in 1..Len(mlast'.warned) :
                           mlast'.warned[w] = SeqRange(in1) \cap SeqRange(in2)]_vars

\* A merge went through with a repeated name, logged, and both entries listed.
C12_Witness ==
  /\ mlast.op = "merge" /\ mlast.outcome = "ok" /\ mlast.allow /\ mlast.warned # <<>>
  /\ \E f \in SeqRange(fields(merged.cls)) :
       \E i, j \in 1..Len(merged.lists[f]) :
         i < j /\ ents[merged.lists[f][i]].name = ents[merged.lists[f][j]].name

\* C13: a successful merge returns a new collection whose entries are objects of
\* their own and leaves both inputs' sublists and entries as they were; renaming
\* a merged entry afterwards changes neither input.
C13_MergeFrame ==
  [][/\ (mlast'.op = "merge" /\ mlast'.outcome = "ok") =>
          /\ InputsUnmodified
          /\ PlacesOf(merged') \cap (PlacesOf(msb_1) \cup PlacesOf(msb_2)) = {}
          /\ PlacesOf(merged') \subseteq 1..Len(ents')
     /\ mlast'.op = "set_name" => InputsUnmodified]_vars

\* An entry of a merged collection was renamed, its original being listed by an input.
C13_Witness ==
  /\ mlast.op = "set_name" /\ mlast.outcome = "ok"
  /\ \E i \in PlacesOf(merged) : ents[i].name = "z"
  /\ PlacesOf(msb_1) # {} /\ PlacesOf(msb_2) # {}
  /\ Len(ents) = 2 * InputCount

\* The names of all entries of a sublist.
AllNames(msb, f) == {ents[msb.lists[f][i]].name : i \in 1..Len(msb.lists[f])}

Identity == <<<<1, 0, 0>>, <<0, 1, 0>>, <<0, 0, 1>>>>

\* The squared distance of two points in the horizontal plane.
HorizontalGap(a, b) == (a[1] - b[1]) * (a[1] - b[1]) + (a[3] - b[3]) * (a[3] - b[3])

\* Every entry but the i-th is as before.
OthersUnchanged(i) == \A j \in 1..Len(world) : j # i => world'[j] = world[j]

\* C15: rotate_entry(entry, rotation, pivot) with rotation resolved to matrix R
\* sets entry.translate to R.(old translate - pivot) + pivot and entry.rotate to
\* the Euler angles of R.EulerToMatrix(old rotate), the pivot defaulting to the
\* origin; for a quarter turn about the vertical axis the entry keeps its height
\* and its horizontal distance from the pivot.
C15_RotateEntryLaw ==
  [][(wlast'.op = "rotate_entry" /\ world[wlast'.entry].has_transform) =>
       LET i == wlast'.entry
           R == resolve_rotation(wlast'.rotation, wlast'.radians)
           pivot == IF wlast'.pivot_point.given THEN wlast'.pivot_point.v ELSE Zero
           old == world[i]
       IN /\ wlast'.outcome = "ok"
          /\ world'[i].translate = Vadd(MatVec(R, Vsub(old.translate, pivot)), pivot)
          /\ world'[i].rotate = to_euler_angles(MatMul(R, from_euler_angles(old.rotate)))
          /\ world'[i] = [old EXCEPT !.translate = world'[i].translate, !.rotate = world'[i].rotate]
          /\ OthersUnchanged(i)
          /\ R # Skew =>
               /\ world'[i].translate[2] = old.translate[2]
               /\ HorizontalGap(world'[i].translate, pivot) = HorizontalGap(old.translate, pivot)
               /\ from_euler_angles(world'[i].rotate) = MatMul(R, from_euler_angles(old.rotate))]_vars

\* The Part at (10, 0, 0) was turned by 90 degrees about the pivot (1, 2, 3).
C15_Witness ==
  /\ wlast.op = "rotate_entry" /\ wlast.outcome = "ok" /\ wlast.entry = 1
  /\ wlast.rotation = RotNumber(Num(90)) /\ ~wlast.radians
  /\ wlast.pivot_point = Given(<<1, 2, 3>>)
  /\ world[1].translate = <<-2, 0, -6>>
  /\ world[1].rotate[2] \in {90, 180}

\* C16: for every Part and Region, rotate_part_or_region completes without error
\* and leaves the translate and rotate that rotate_entry gives for the same arguments.
C16_SameAsRotateEntry ==
  [][(wlast'.op = "rotate_part_or_region" /\ world[wlast'.entry].kind \in PartsAndRegions) =>
       /\ wlast'.outcome = "ok"
       /\ world'[wlast'.entry] = rotate_entry(world[wlast'.entry], wlast'.rotation,
                                              wlast'.pivot_point, wlast'.radians).entry]_vars

\* C17: rotate_part_or_region of an entry that is neither a Part nor a Region
\* raises a type error and leaves the entry as it was.
C17_OtherEntryTypeError ==
  [][(wlast'.op = "rotate_part_or_region" /\ world[wlast'.entry].kind \notin PartsAndRegions) =>
       wlast'.outcome = "TypeError" /\ world' = world]_vars

\* The Parts and Regions a name stands for.
NameMatches(n) == {i \in 1..Len(world) : world[i].kind \in PartsAndRegions /\ world[i].name = n}

\* Every name of the selection is that of exactly one Part or Region.
Resolvable(sel) ==
  \A k \in 1..Len(sel) : sel[k].kind = "name" => Cardinality(NameMatches(sel[k].name)) = 1

\* The Parts and Regions a selection picks: all of them if it is empty.
ChosenPlaces(sel) ==
  {i \in 1..Len(world) :
     /\ world[i].kind \in PartsAndRegions
     /\ sel = <<>> \/ \E k \in 1..Len(sel) :
                        \/ sel[k].kind = "entry" /\ sel[k].ref = i
                        \/ sel[k].kind = "name" /\ i \in NameMatches(sel[k].name)}

\* The world rotation and translation of a move_map call.
WorldRotation(call) ==
  MatMul(from_euler_angles(call.end_rotate.v), Transpose(from_euler_angles(call.start_rotate.v)))
WorldTranslation(call) ==
  Vsub(call.end_translate.v, MatVec(WorldRotation(call), call.start_translate.v))

\* The call moves or turns the entries it is applied to.
Moves(call) ==
  CASE call.op = "translate_all" -> call.translate # Zero
    [] call.op = "rotate_all_in_world" ->
         resolve_rotation(call.rotation, call.radians) \notin {Identity, Skew}
    [] call.op = "move_map" -> WorldRotation(call) # Identity
    [] OTHER -> FALSE

\* C18: translate_all, rotate_all_in_world and move_map transform every Part and
\* Region when the selection is empty, and otherwise the selected ones alone:
\* every other entry keeps its translate, rotate and reflect_plane_height.
C18_SelectiveTransform ==
  [][(/\ wlast'.op \in {"translate_all", "rotate_all_in_world", "move_map"}
      /\ Resolvable(wlast'.selected_entries)) =>
       /\ wlast'.outcome = "ok"
       /\ \A i \in 1..Len(world) :
            IF i \in ChosenPlaces(wlast'.selected_entries)
              THEN Moves(wlast') => world'[i] # world[i]
              ELSE world'[i] = world[i]]_vars

\* C19: translate_all adds delta to the translate of every selected Part and
\* Region and delta.y to the reflect_plane_height of the selected Parts that have
\* one, and changes nothing else, no rotate in particular.
C19_TranslateAll ==
  [][(wlast'.op = "translate_all" /\ Resolvable(wlast'.selected_entries)) =>
       /\ wlast'.outcome = "ok"
       /\ Len(world') = Len(world)
       /\ \A i \in 1..Len(world) :
            LET old == world[i]
                chosen == i \in ChosenPlaces(wlast'.selected_entries)
            IN /\ world'[i].translate =
                    IF chosen THEN Vadd(old.translate, wlast'.translate) ELSE old.translate
               /\ world'[i].reflect_plane_height =
                    IF chosen /\ old.kind = "part" /\ old.has_reflect_plane_height
                      THEN old.reflect_plane_height + wlast'.translate[2]
                      ELSE old.reflect_plane_height
               /\ world'[i] = [old EXCEPT !.translate = world'[i].translate,
                                          !.reflect_plane_height = world'[i].reflect_plane_height]]_vars

\* The Part with reflect_plane_height 5 at height 0 and the Part named "b" were
\* moved by (0, 2, 0); the Region was not selected.
C19_Witness ==
  /\ wlast.op = "translate_all" /\ wlast.outcome = "ok" /\ wlast.translate = <<0, 2, 0>>
  /\ wlast.selected_entries = <<SelEntry(1), SelName("b")>>
  /\ world[1].translate = <<10, 2, 0>> /\ world[1].reflect_plane_height = 7
  /\ world[2].translate = <<1, 4, 3>> /\ world[2].reflect_plane_height = 0
  /\ world[3].translate[2] # 4

\* C20: move_map completes and gives every selected Part and Region the translate
\* Rw.translate + T and the orientation Rw.EulerToMatrix(rotate), with
\* Rw = EulerToMatrix(end_rotate).EulerToMatrix(start_rotate)^T and
\* T = end_translate - Rw.start_translate, so that an entry at start_translate
\* with orientation start_rotate ends at end_translate with orientation end_rotate.
C20_MoveMapRigid ==
  [][(wlast'.op = "move_map" /\ Resolvable(wlast'.selected_entries)) =>
       /\ wlast'.outcome = "ok"
       /\ \A i \in ChosenPlaces(wlast'.selected_entries) :
            /\ world'[i].translate =
                 Vadd(MatVec(WorldRotation(wlast'), world[i].translate), WorldTranslation(wlast'))
            /\ from_euler_angles(world'[i].rotate) =
                 MatMul(WorldRotation(wlast'), from_euler_angles(world[i].rotate))
            /\ (/\ world[i].translate = wlast'.start_translate.v
                /\ world[i].rotate = wlast'.start_rotate.v) =>
                 /\ world'[i].translate = wlast'.end_translate.v
                 /\ from_euler_angles(world'[i].rotate) = from_euler_angles(wlast'.end_rotate.v)]_vars

\* The call leaves every start and end value at zero: given as zero or not given.
AllZero(call) ==
  /\ call.start_translate.v = Zero /\ call.end_translate.v = Zero
  /\ call.start_rotate.v = Zero /\ call.end_rotate.v = Zero

\* C21: move_map with start_translate, end_translate, start_rotate and end_rotate
\* all zero or all left out completes without error on an MSB that has Parts and
\* Regions, and leaves the translate and rotate of every Part and Region as they were.
C21_MoveMapIdentity ==
  [][(/\ wlast'.op = "move_map" /\ AllZero(wlast') /\ Resolvable(wlast'.selected_entries)
      /\ get_parts(world) # <<>> /\ get_regions(world) # <<>>) =>
       /\ wlast'.outcome = "ok"
       /\ \A i \in 1..Len(world) :
            world[i].kind \in PartsAndRegions =>
              /\ world'[i].translate = world[i].translate
              /\ world'[i].rotate = world[i].rotate]_vars

\* The number of Parts and Regions of the MSB that bear the name n.
Bearers(n) == Cardinality({i \in 1..Len(world) : world[i].kind \in {"part", "region"} /\ world[i].name = n})

\* Some name of the selection is the name of no Part or Region, or of several.
FailsToResolve(sel) == \E k \in 1..Len(sel) : sel[k].kind = "name" /\ Bearers(sel[k].name) # 1

ResolutionErrors == {"NotFound", "Ambiguous"}

\* C22: move_map, rotate_all_in_world and translate_all look the names of the
\* selection up among the Parts and Regions alone; a name that is missing there
\* (that of an Event included) or borne by several of them makes the call fail
\* with the MSB as it was, and no other selection fails to resolve.
C22_ResolveBeforeModify ==
  [][(wlast'.op \in {"move_map", "rotate_all_in_world", "translate_all"}) =>
       IF FailsToResolve(wlast'.selected_entries)
         THEN wlast'.outcome \in ResolutionErrors /\ world' = world
         ELSE wlast'.outcome \notin ResolutionErrors]_vars

\* translate_all by (1, 2, 3) of the Part "b" and of "e", the name of an Event,
\* failed and the Part "b" is where it was.
C22_Witness ==
  /\ wlast.op = "translate_all" /\ wlast.translate = <<1, 2, 3>>
  /\ wlast.selected_entries = <<SelName("b"), SelName("e")>>
  /\ wlast.outcome = "NotFound"
  /\ world[2].translate = <<1, 2, 3>>

\* C25: rotate_all_in_world with a rotation given as Euler angles or as one yaw
\* number reads it in radians when radians is true and in degrees when it is
\* false: it completes and leaves every selected Part and Region as rotate_entry
\* with the same rotation, pivot and radians flag leaves it.
C25_RadiansHonoured ==
  [][(/\ wlast'.op = "rotate_all_in_world"
      /\ wlast'.rotation.kind \in {"euler", "number"}
      /\ Resolvable(wlast'.selected_entries)) =>
       /\ wlast'.outcome = "ok"
       /\ \A i \in ChosenPlaces(wlast'.selected_entries) :
            world'[i] = rotate_entry(world[i], wlast'.rotation, wlast'.pivot_point,
                                     wlast'.radians).entry]_vars

(* ----------------------------------------------------------- claims: merge *)
\* The names, in order, of the entries a sublist holds.
NamesIn(heap, msb, f) == [i \in 1..Len(msb.lists[f]) |-> heap[msb.lists[f][i]].name]

\* C26: for every subtype the merged sublist is msb_1's entries that pass the
\* filter, in their order, followed by msb_2's entries that pass the filter, in
\* their order; rejected entries are nowhere in the result, and without a filter
\* all entries of both sides are there.
C26_MergedOrder ==
  [][(mlast'.op = "merge" /\ mlast'.outcome = "ok") =>
       /\ merged'.cls = msb_1.cls
       /\ \A f \in SeqRange(fields(msb_1.cls)) :
            /\ NamesIn(ents', merged', f) =
                 PassSeq(msb_1, f, mlast'.filter) \o PassSeq(msb_2, f, mlast'.filter)
            /\ mlast'.filter = "None" =>
                 NamesIn(ents', merged', f) = NamesIn(ents, msb_1, f) \o NamesIn(ents, msb_2, f)
            /\ mlast'.filter # "None" =>
                 \A i \in 1..Len(merged'.lists[f]) :
                   Call(mlast'.filter, ents'[merged'.lists[f][i]])]_vars

\* A sublist "a", "b" and a sublist "b", "a" were merged into "a", "b", "b", "a".
C26_Witness ==
  /\ mlast.op = "merge" /\ mlast.outcome = "ok" /\ mlast.filter = "None"
  /\ NamesIn(ents, msb_1, "parts") = <<"a", "b">>
  /\ NamesIn(ents, msb_2, "parts") = <<"b", "a">>
  /\ NamesIn(ents, merged, "parts") = <<"a", "b", "b", "a">>

Distinct(q) == \A i, j \in 1..Len(q) : q[i] = q[j] => i = j

\* C29: if the names are pairwise distinct within every sublist of both inputs and
\* merge with allow_repeated_names false returns a collection, the names are
\* pairwise distinct within every sublist of that collection.
C29_DistinctNamesKept ==
  [][(/\ mlast'.op = "merge" /\ ~mlast'.allow /\ mlast'.outcome = "ok"
      /\ \A f \in SeqRange(fields(msb_1.cls)) :
           Distinct(NamesIn(ents, msb_1, f)) /\ Distinct(NamesIn(ents, msb_2, f))) =>
       \A f \in SeqRange(fields(merged'.cls)) : Distinct(NamesIn(ents', merged', f))]_vars

\* A collection was returned whose parts are those of both inputs under
\* different names.
C29_Witness ==
  /\ mlast.op = "merge" /\ mlast.outcome = "ok" /\ ~mlast.allow
  /\ msb_1.lists["parts"] # <<>> /\ msb_2.lists["parts"] # <<>>
  /\ Len(merged.lists["parts"]) = 2
  /\ Distinct(NamesIn(ents, merged, "parts"))

(* ----------------------------------------------------- claims: GroupBitSet *)
\* C28: a GroupBitSet built from another instance of its class or from a set of
\* the caller is independent of its source: add and remove on one instance leave
\* the members of every other instance, and of the caller's set, as they were.
C28_ConstructedIndependent ==
  [][(last'.op \in {"add", "remove"}) =>
       /\ \A y \in ObjIds \ {last'.x} : Live(y) => cells'[objs[y].cell] = cells[objs[y].cell]
       /\ callerSet # 0 => cells'[callerSet] = cells[callerSet]]_vars

(* -------------------------------------------------- claims: RuntimeManager *)
\* C23: hook_into_game returns True if the hook was successful and False if not:
\* whenever it has returned True and shown "Hook Successful", a memory hook is
\* stored and is_hooked is true, with the direct hook and with the hook thread,
\* also when the hook thread ended with an exception.
C23_TrueMeansHooked ==
  (hk.pc = "idle" /\ hk.ret = "True") =>
    /\ hk.dialogs # <<>> /\ hk.dialogs[Len(hk.dialogs)] = "Hook Successful"
    /\ is_hooked(manager)
    /\ manager.hook = DSRMemoryHook(hk.pid)

(* ------------------------------------------------------- claims: DrawParam *)
\* The row's name is not empty and does not start with "0".
Nonzero(name) == name # <<>> /\ name[1] # "0"

\* The row's name starts with "PolyG", in upper or lower case.
IsPolyG(name) == Len(name) >= 5 /\ lower(SubSeq(name, 1, 5)) = <<"p", "o", "l", "y", "g">>

\* C24: get_nonzero_entries returns exactly the rows whose name is not empty and
\* does not start with "0"; with ignore_polyg true (the default) it leaves out
\* the rows whose name starts with "PolyG" in any case as well, and with
\* ignore_polyg false it keeps them.
C24_NonzeroEntries ==
  dlast.op = "get_nonzero_entries" =>
    LET wanted == {index \in DOMAIN draw_param :
                     /\ Nonzero(draw_param[index])
                     /\ dlast.ignore_polyg => ~IsPolyG(draw_param[index])}
    IN dlast.result = [index \in wanted |-> draw_param[index]]

(* ----------------------------------------------------- claims: event tests *)
\* The call is in one of the modes condition, skip_lines, end_event, restart_event.
OneMode(a) ==
  Cardinality({m \in {"condition", "skip_lines", "end_event", "restart_event"} :
                 \/ m = "condition" /\ a.condition # NoValue
                 \/ m = "skip_lines" /\ a.skip_lines > 0
                 \/ m = "end_event" /\ a.end_event
                 \/ m = "restart_event" /\ a.restart_event}) = 1

\* The same arguments with negate inverted.
Negated(a) == [a EXCEPT !.negate = ~a.negate]

\* C30: FlagDisabled and OutsideMap, called in one of the modes condition,
\* skip_lines, end_event and restart_event with negate = n, complete without
\* error and return the instruction that FlagEnabled and InsideMap return for
\* the same arguments with negate = not n.
C30_OppositeTests ==
  /\ (elast.test = "FlagDisabled" /\ OneMode(elast.args)) =>
       elast.outcome = "ok" /\ elast.result = FlagEnabled(Negated(elast.args)).result
  /\ (elast.test = "OutsideMap" /\ OneMode(elast.args)) =>
       elast.outcome = "ok" /\ elast.result = InsideMap(Negated(elast.args)).result

====
